---- MODULE Spec2Model ----
(***************************************************************************)
(* mediavault: the Object Store (storage/mod.rs) over a small POSIX file   *)
(* tree, and the Catalog Index (db/mod.rs) over the two SQLite tables      *)
(* files and files_tags.                                                   *)
(*                                                                         *)
(* A path is a sequence of components; a component is a stem followed by   *)
(* its dotted suffixes, so that "a/b.meta.yaml" is                         *)
(* << <<"a">>, <<"b", ".meta.yaml">> >>.  File data is a sequence of       *)
(* tokens (bytes of content, or the tokens of a YAML document).            *)
(***************************************************************************)
EXTENDS Integers, Sequences, FiniteSets, Bags, TLC

VARIABLES fs, db, now, last

vars == <<fs, db, now, last>>

\* Option<T>: None is the empty sequence, Some(x) the one-element sequence.
None == <<>>
Some(x) == <<x>>

\* Result<T, Error>
Ok(v) == [ok |-> TRUE, val |-> v]
Err(e) == [ok |-> FALSE, err |-> e]

Min(a, b) == IF a < b THEN a ELSE b

(***************************************************************************)
(* Bounds and input sets                                                   *)
(***************************************************************************)
\* the read buffer of compute_hash (4096 bytes in the source), scaled down
BufSize == 2

PathA == << <<"a">> >>
PathAMeta == << <<"a", ".meta.yaml">> >>
PathAB == << <<"a">>, <<"b">> >>
Paths == {PathA, PathAMeta, PathAB}

Contents == { <<"P", "x", "y">>, <<"V">> }

(***************************************************************************)
(* types.rs                                                                *)
(***************************************************************************)
FileKind == {"Image", "Video", "Audio", "Other"}

from_mime(value) ==
    IF value \in {"image/png"} THEN "Image" ELSE "Other"

from_str(value) ==
    CASE value = "image" -> "Image"
      [] value = "video" -> "Video"
      [] value = "audio" -> "Audio"
      [] OTHER -> "Other"

to_str(kind) ==
    CASE kind = "Image" -> "image"
      [] kind = "Video" -> "video"
      [] kind = "Audio" -> "audio"
      [] kind = "Other" -> "other"

FileMetaDefault ==
    [title |-> None, description |-> None, tags |-> <<>>, sources |-> <<>>,
     hash |-> None]

MetaFull ==
    [title |-> Some("~"), description |-> Some("d"), tags |-> <<"a", "b">>,
     sources |-> << [url |-> "u"] >>, hash |-> Some("md5:V")]

MetaTitle ==
    [title |-> Some("t"), description |-> None, tags |-> <<"b">>,
     sources |-> <<>>, hash |-> None]

Metas == {FileMetaDefault, MetaFull, MetaTitle}

(***************************************************************************)
(* serde_yaml: a FileMeta as a YAML document (a token sequence) and back   *)
(***************************************************************************)
\* plain scalars that YAML would read as something other than that string
need_quotes(s) == s \in {"", "~", "null", "true", "false", "[]", "-", "---", "'"}

yaml_str(s) == IF need_quotes(s) THEN <<"'", s, "'">> ELSE <<s>>

yaml_opt(o) == IF o = None THEN <<"~">> ELSE yaml_str(o[1])

RECURSIVE yaml_items(_)
yaml_items(v) ==
    IF v = <<>> THEN <<>>
    ELSE <<"-">> \o yaml_str(Head(v)) \o yaml_items(Tail(v))

yaml_vec(v) == IF v = <<>> THEN <<"[]">> ELSE yaml_items(v)

RECURSIVE yaml_source_items(_)
yaml_source_items(v) ==
    IF v = <<>> THEN <<>>
    ELSE <<"-", "url:">> \o yaml_str(Head(v).url) \o yaml_source_items(Tail(v))

yaml_sources(v) == IF v = <<>> THEN <<"[]">> ELSE yaml_source_items(v)

to_yaml(meta) ==
    <<"---", "title:">> \o yaml_opt(meta.title)
        \o <<"description:">> \o yaml_opt(meta.description)
        \o <<"tags:">> \o yaml_vec(meta.tags)
        \o <<"sources:">> \o yaml_sources(meta.sources)
        \o <<"hash:">> \o yaml_opt(meta.hash)

ParseBad == [ok |-> FALSE, val |-> <<>>, rest |-> <<>>]
Parsed(v, rest) == [ok |-> TRUE, val |-> v, rest |-> rest]

parse_str(t) ==
    IF t = <<>> THEN ParseBad
    ELSE IF Head(t) = "'"
         THEN IF Len(t) >= 3 /\ t[3] = "'"
              THEN Parsed(t[2], SubSeq(t, 4, Len(t)))
              ELSE ParseBad
         ELSE Parsed(Head(t), Tail(t))

parse_opt(t) ==
    IF t # <<>> /\ Head(t) = "~" THEN Parsed(None, Tail(t))
    ELSE LET r == parse_str(t)
         IN IF r.ok THEN Parsed(Some(r.val), r.rest) ELSE ParseBad

RECURSIVE parse_items(_, _)
parse_items(t, acc) ==
    IF t # <<>> /\ Head(t) = "-"
    THEN LET r == parse_str(Tail(t))
         IN IF r.ok THEN parse_items(r.rest, Append(acc, r.val)) ELSE ParseBad
    ELSE IF acc = <<>> THEN ParseBad ELSE Parsed(acc, t)

parse_vec(t) ==
    IF t # <<>> /\ Head(t) = "[]" THEN Parsed(<<>>, Tail(t))
    ELSE parse_items(t, <<>>)

RECURSIVE parse_source_items(_, _)
parse_source_items(t, acc) ==
    IF Len(t) >= 2 /\ t[1] = "-" /\ t[2] = "url:"
    THEN LET r == parse_str(SubSeq(t, 3, Len(t)))
         IN IF r.ok
            THEN parse_source_items(r.rest, Append(acc, [url |-> r.val]))
            ELSE ParseBad
    ELSE IF acc = <<>> THEN ParseBad ELSE Parsed(acc, t)

parse_sources(t) ==
    IF t # <<>> /\ Head(t) = "[]" THEN Parsed(<<>>, Tail(t))
    ELSE parse_source_items(t, <<>>)

\* the key k is the next token of a document read without error so far
has_key(s, k) == s.ok /\ s.rest # <<>> /\ Head(s.rest) = k

from_yaml(t) ==
    LET s0 == IF t # <<>> /\ Head(t) = "---" THEN Parsed(<<>>, Tail(t))
              ELSE ParseBad
        title == IF has_key(s0, "title:") THEN parse_opt(Tail(s0.rest))
                 ELSE ParseBad
        description == IF has_key(title, "description:")
                       THEN parse_opt(Tail(title.rest)) ELSE ParseBad
        tags == IF has_key(description, "tags:")
                THEN parse_vec(Tail(description.rest)) ELSE ParseBad
        sources == IF has_key(tags, "sources:")
                   THEN parse_sources(Tail(tags.rest)) ELSE ParseBad
        hash == IF has_key(sources, "hash:") THEN parse_opt(Tail(sources.rest))
                ELSE ParseBad
    IN IF hash.ok /\ hash.rest = <<>>
       THEN Ok([title |-> title.val, description |-> description.val,
                tags |-> tags.val, sources |-> sources.val, hash |-> hash.val])
       ELSE Err("MalformedData")

(***************************************************************************)
(* The file tree under the store root (std::fs on a POSIX system)          *)
(***************************************************************************)
root == <<>>

Parent(n) == SubSeq(n, 1, Len(n) - 1)
Ancestors(n) == {SubSeq(n, 1, i) : i \in 0..(Len(n) - 1)}

\* what a path lookup of name n ends in
lookup(S, n) ==
    IF \E a \in Ancestors(n) : a \in DOMAIN S.files THEN "NotADirectory"
    ELSE IF n \in DOMAIN S.files THEN "file"
    ELSE IF n \in S.dirs THEN "dir"
    ELSE "NotFound"

\* fs::create_dir_all
create_dir_all(S, d) ==
    IF \E a \in Ancestors(d) \cup {d} : a \in DOMAIN S.files
    THEN [fs |-> S,
          res |-> Err(IF d \in DOMAIN S.files THEN "AlreadyExists"
                      ELSE "NotADirectory")]
    ELSE [fs |-> [S EXCEPT !.dirs = @ \cup {SubSeq(d, 1, i) : i \in 1..Len(d)}],
          res |-> Ok(<<>>)]

\* fs::File::create followed by writing all of data
fs_create(S, n, data) ==
    LET l == lookup(S, n)
    IN IF l = "dir" THEN [fs |-> S, res |-> Err("IsADirectory")]
       ELSE IF l = "NotADirectory" THEN [fs |-> S, res |-> Err("NotADirectory")]
       ELSE IF l = "NotFound" /\ Parent(n) \notin S.dirs
            THEN [fs |-> S, res |-> Err("NotFound")]
       ELSE [fs |-> [S EXCEPT !.files = (n :> data) @@ @], res |-> Ok(<<>>)]

\* the bytes put after the end of the file, as through a handle opened for
\* appending
fs_write_append(S, n, data) == [S EXCEPT !.files[n] = @ \o data]

\* write_all of data through a handle that fs::File::create returned: the
\* bytes go to the start of the file, bytes beyond them stay
fs_write(S, n, data) ==
    [S EXCEPT !.files[n] = data \o SubSeq(@, Len(data) + 1, Len(@))]

\* fs::remove_file
fs_remove_file(S, n) ==
    LET l == lookup(S, n)
    IN IF l = "file"
       THEN [fs |-> [S EXCEPT !.files = [x \in (DOMAIN @) \ {n} |-> @[x]]],
             res |-> Ok(<<>>)]
       ELSE [fs |-> S, res |-> Err(IF l = "dir" THEN "IsADirectory" ELSE l)]

\* fs::File::open and reading the file to its end
fs_read(S, n) ==
    LET l == lookup(S, n)
    IN IF l = "file" THEN Ok(S.files[n])
       ELSE Err(IF l = "dir" THEN "IsADirectory" ELSE l)

(***************************************************************************)
(* storage/mod.rs                                                          *)
(***************************************************************************)
\* md5::Context::compute and format!("{:x}"): the digest of the consumed
\* bytes, as a string that differs whenever the bytes differ
RECURSIVE md5_hex(_)
md5_hex(bytes) == IF bytes = <<>> THEN "" ELSE Head(bytes) \o md5_hex(Tail(bytes))

md5_digest(bytes) == "md5:" \o md5_hex(bytes)

RECURSIVE hash_loop(_, _)
hash_loop(input, ctx) ==
    LET len == Min(Len(input), BufSize)
    IN IF len > 0
       THEN hash_loop(SubSeq(input, len + 1, Len(input)),
                      ctx \o SubSeq(input, 1, len))
       ELSE ctx

\* a single read instead of the loop
compute_hash_one_read(input) ==
    md5_digest(SubSeq(input, 1, Min(Len(input), BufSize)))

compute_hash(input) == md5_digest(hash_loop(input, <<>>))

\* `file --mime-type --brief`: decided by the first bytes of the content
file_mime(data) ==
    IF data = <<>> THEN "inode/x-empty"
    ELSE IF Head(data) = "P" THEN "image/png"
    ELSE IF Head(data) = "V" THEN "video/mp4"
    ELSE "text/plain"

file_path(path) == root \o path

\* the sidecar suffix left out
meta_path_no_suffix(path) == root \o path

meta_path(path) ==
    root \o [path EXCEPT ![Len(path)] = Append(@, ".meta.yaml")]

ends_with(path, suffix) ==
    LET c == path[Len(path)] IN c[Len(c)] = suffix

\* every failure to open the sidecar passed on
file_meta_strict(S, path) ==
    LET f == fs_read(S, meta_path(path))
    IN IF f.ok THEN from_yaml(f.val) ELSE f

file_meta(S, path) ==
    LET f == fs_read(S, meta_path(path))
    IN IF f.ok THEN from_yaml(f.val)
       ELSE IF f.err = "NotFound" THEN Ok(FileMetaDefault)
       ELSE f

file_info(S, path) ==
    LET f == fs_read(S, file_path(path))
    IN IF ~f.ok THEN f
       ELSE LET mime == file_mime(f.val)
            IN Ok([hash |-> compute_hash(f.val),
                   size |-> Len(f.val),
                   mime |-> Some(mime),
                   kind |-> from_mime(mime),
                   created_at |-> None,
                   updated_at |-> None])

\* a File read that does not look at the suffix of the path
file_any_suffix(S, path) ==
    LET info == file_info(S, path)
        meta == file_meta(S, path)
    IN IF ~info.ok THEN info
       ELSE IF ~meta.ok THEN meta
       ELSE Ok([path |-> path, info |-> info.val, meta |-> meta.val])

file(S, path) ==
    IF ends_with(path, ".gallery.yaml") THEN Err("path is a gallery, not a file")
    ELSE IF ends_with(path, ".importer.js") THEN Err("path is a importer, not a file")
    ELSE LET info == file_info(S, path)
             meta == file_meta(S, path)
         IN IF ~info.ok THEN info
            ELSE IF ~meta.ok THEN meta
            ELSE Ok([path |-> path, info |-> info.val, meta |-> meta.val])

\* fs::metadata(&full_path).is_ok()
path_exists_never(S, n) == FALSE

path_exists(S, n) == lookup(S, n) \in {"file", "dir"}

file_create(S, path, meta, input) ==
    LET full_path == file_path(path)
        parent_dir == Parent(full_path)
        mk == IF parent_dir # root THEN create_dir_all(S, parent_dir)
              ELSE [fs |-> S, res |-> Ok(<<>>)]
        content == fs_create(mk.fs, full_path, input)
        sidecar == fs_create(content.fs, meta_path(path), to_yaml(meta))
    IN IF path_exists(S, full_path)
       THEN [fs |-> S, res |-> Err("path_already_exists")]
       ELSE IF ~mk.res.ok THEN mk
       ELSE IF ~content.res.ok THEN content
       ELSE IF ~sidecar.res.ok THEN sidecar
       ELSE [fs |-> sidecar.fs, res |-> file(sidecar.fs, path)]

\* the content removed again when the sidecar is not written
file_create_faulty_rollback(S, path, meta, input, fault) ==
    LET r == file_create(S, path, meta, input)
    IN IF fault = "none" /\ r.res.ok
       THEN [fs |-> r.fs, res |-> r.res, stage |-> "done"]
       ELSE [fs |-> S,
             res |-> IF r.res.ok THEN Err("Io") ELSE r.res,
             stage |-> IF path_exists(S, file_path(path)) THEN "metadata"
                       ELSE "sidecar"]

\* file_create where the operating system may refuse the sidecar: with the
\* fault "sidecar_create" File::create of the sidecar fails, with
\* "sidecar_write" the sidecar is created and the first write to it fails.
\* stage is the statement at which the call ended.
file_create_faulty(S, path, meta, input, fault) ==
    LET full_path == file_path(path)
        parent_dir == Parent(full_path)
        mk == IF parent_dir # root THEN create_dir_all(S, parent_dir)
              ELSE [fs |-> S, res |-> Ok(<<>>)]
        content == fs_create(mk.fs, full_path, input)
        sidecar == IF fault = "sidecar_create"
                   THEN [fs |-> content.fs, res |-> Err("Io")]
                   ELSE fs_create(content.fs, meta_path(path),
                                  IF fault = "sidecar_write" THEN <<>>
                                  ELSE to_yaml(meta))
    IN IF path_exists(S, full_path)
       THEN [fs |-> S, res |-> Err("path_already_exists"), stage |-> "metadata"]
       ELSE IF ~mk.res.ok THEN [fs |-> mk.fs, res |-> mk.res, stage |-> "create_dir_all"]
       ELSE IF ~content.res.ok
            THEN [fs |-> content.fs, res |-> content.res, stage |-> "content"]
       ELSE IF ~sidecar.res.ok
            THEN [fs |-> sidecar.fs, res |-> sidecar.res, stage |-> "sidecar"]
       ELSE IF fault = "sidecar_write"
            THEN [fs |-> sidecar.fs, res |-> Err("Io"), stage |-> "sidecar"]
       ELSE [fs |-> sidecar.fs, res |-> file(sidecar.fs, path), stage |-> "done"]

\* the sidecar written before the file info is loaded
file_meta_update_write_first(S, path, meta) ==
    LET sidecar == fs_create(S, meta_path(path), to_yaml(meta))
        info == file_info(S, path)
    IN IF ~sidecar.res.ok THEN sidecar
       ELSE IF ~info.ok THEN [fs |-> sidecar.fs, res |-> info]
       ELSE [fs |-> sidecar.fs,
             res |-> Ok([path |-> path, info |-> info.val, meta |-> meta])]

file_meta_update(S, path, meta) ==
    LET info == file_info(S, path)
        sidecar == fs_create(S, meta_path(path), to_yaml(meta))
    IN IF ~info.ok THEN [fs |-> S, res |-> info]
       ELSE IF ~sidecar.res.ok THEN sidecar
       ELSE [fs |-> sidecar.fs,
             res |-> Ok([path |-> path, info |-> info.val, meta |-> meta])]

\* the content removed, the sidecar left behind
file_delete_content_only(S, path) == fs_remove_file(S, file_path(path))

file_delete(S, path) ==
    LET m == fs_remove_file(S, meta_path(path))
        c == fs_remove_file(m.fs, file_path(path))
    IN IF ~m.res.ok /\ m.res.err # "NotFound" THEN m
       ELSE c

(***************************************************************************)
(* db/mod.rs: the SQLite tables.  db.files is the files table in rowid     *)
(* order, db.files_tags the files_tags table as a bag of (tag, file_hash)  *)
(* rows.  NULL is None.                                                    *)
(***************************************************************************)
files_columns ==
    {"hash", "path", "title", "description", "size", "mime", "kind",
     "created_at", "updated_at", "width", "height", "length"}

\* PRAGMA foreign_keys = ON, set on every pooled connection
foreign_keys_off == FALSE

foreign_keys == TRUE

\* the characters of a tag
tag_chars(tag) ==
    CASE tag = "a" -> <<"a">>
      [] tag = "b" -> <<"b">>
      [] tag = "o'c" -> <<"o", "'", "c">>

\* the rows of bag B that are in S
BagKeep(B, S) == [e \in (DOMAIN B) \cap S |-> B[e]]

\* PRIMARY KEY (hash) only, path not UNIQUE
unique_conflict_hash_only(old, new) == old.hash = new.hash

\* files: hash PRIMARY KEY, path UNIQUE
unique_conflict(old, new) == old.hash = new.hash \/ old.path = new.path

\* ON DELETE CASCADE from files.hash to files_tags.file_hash
cascade(D, hashes) ==
    IF foreign_keys
    THEN BagKeep(D.files_tags,
                 {e \in DOMAIN D.files_tags : e.file_hash \notin hashes})
    ELSE D.files_tags

\* the rows in conflict deleted without their tag rows
sql_replace_into_files_keep_tags(D, row) ==
    [files |-> Append(SelectSeq(D.files, LAMBDA r : ~unique_conflict(r, row)), row),
     files_tags |-> D.files_tags]

\* INSERT OR REPLACE INTO files: the rows in conflict with the new one are
\* deleted (with their tag rows), then the new row is appended
sql_replace_into_files(D, row) ==
    LET gone == {D.files[i].hash : i \in {j \in DOMAIN D.files :
                                            unique_conflict(D.files[j], row)}}
    IN [files |-> Append(SelectSeq(D.files,
                                   LAMBDA r : ~unique_conflict(r, row)), row),
        files_tags |-> cascade(D, gone)]

\* DELETE FROM files WHERE hash = ?
sql_delete_from_files(D, hash) ==
    [files |-> SelectSeq(D.files, LAMBDA r : r.hash # hash),
     files_tags |-> cascade(D, {hash})]

\* INSERT OR REPLACE INTO files_tags (file_hash, tag): UNIQUE (tag, file_hash)
\* and the foreign key to files
sql_replace_into_files_tags(D, hash, tag) ==
    LET row == [tag |-> tag, file_hash |-> hash]
    IN IF foreign_keys /\ \A i \in DOMAIN D.files : D.files[i].hash # hash
       THEN [db |-> D, res |-> Err("FOREIGN KEY constraint failed")]
       ELSE [db |-> [D EXCEPT !.files_tags =
                         BagKeep(@, (DOMAIN @) \ {row}) (+) SetToBag({row})],
             res |-> Ok(<<>>)]

\* format!("'{}'", t) of every tag, joined with ","
RECURSIVE quoted_tags(_)
quoted_tags(tags) ==
    IF tags = <<>> THEN <<>>
    ELSE <<"'">> \o tag_chars(Head(tags)) \o <<"'">>
         \o (IF Tail(tags) = <<>> THEN <<>> ELSE <<",">>)
         \o quoted_tags(Tail(tags))

\* SQLite reading a string literal whose opening quote is before position i
RECURSIVE sql_literal(_, _, _)
sql_literal(cs, i, acc) ==
    IF i > Len(cs) THEN [ok |-> FALSE, val |-> acc, next |-> i]
    ELSE IF cs[i] = "'"
         THEN IF i + 1 <= Len(cs) /\ cs[i + 1] = "'"
              THEN sql_literal(cs, i + 2, Append(acc, "'"))
              ELSE [ok |-> TRUE, val |-> acc, next |-> i + 1]
         ELSE sql_literal(cs, i + 1, Append(acc, cs[i]))

\* SQLite reading the text between "NOT IN (" and ")": literals and commas
RECURSIVE sql_in_list(_, _, _)
sql_in_list(cs, i, acc) ==
    IF cs = <<>> THEN Ok({})
    ELSE IF i > Len(cs) \/ cs[i] # "'" THEN Err("syntax error")
    ELSE LET lit == sql_literal(cs, i + 1, <<>>)
         IN IF ~lit.ok THEN Err("syntax error")
            ELSE IF lit.next > Len(cs) THEN Ok(acc \cup {lit.val})
            ELSE IF cs[lit.next] = ","
                 THEN sql_in_list(cs, lit.next + 1, acc \cup {lit.val})
            ELSE Err("syntax error")

RECURSIVE insert_tags(_, _, _)
insert_tags(D, hash, tags) ==
    IF tags = <<>> THEN [db |-> D, res |-> Ok(<<>>)]
    ELSE LET r == sql_replace_into_files_tags(D, hash, Head(tags))
         IN IF ~r.res.ok THEN r ELSE insert_tags(r.db, hash, Tail(tags))

file_tags_persist(D, hash, tags) ==
    LET list == sql_in_list(quoted_tags(tags), 1, {})
        stale(e) == e.file_hash = hash /\ tag_chars(e.tag) \notin list.val
    IN IF ~list.ok THEN [db |-> D, res |-> list]
       ELSE insert_tags([D EXCEPT !.files_tags =
                             BagKeep(@, {e \in DOMAIN @ : ~stale(e)})],
                        hash, tags)

\* a NULL bound to a NOT NULL DEFAULT CURRENT_TIMESTAMP column under OR REPLACE
timestamp_or_default(t, clock) == IF t = None THEN clock ELSE t[1]

\* the hash override of the sidecar taken as the key of the row
file_row_key_from_meta(f, clock) ==
    [hash |-> IF f.meta.hash # None THEN f.meta.hash[1] ELSE f.info.hash,
     path |-> f.path,
     title |-> f.meta.title,
     description |-> f.meta.description,
     size |-> f.info.size,
     mime |-> f.info.mime,
     kind |-> to_str(f.info.kind),
     created_at |-> timestamp_or_default(f.info.created_at, clock),
     updated_at |-> timestamp_or_default(f.info.updated_at, clock),
     width |-> None,
     height |-> None,
     length |-> None]

file_row(f, clock) ==
    [hash |-> f.info.hash,
     path |-> f.path,
     title |-> f.meta.title,
     description |-> f.meta.description,
     size |-> f.info.size,
     mime |-> f.info.mime,
     kind |-> to_str(f.info.kind),
     created_at |-> timestamp_or_default(f.info.created_at, clock),
     updated_at |-> timestamp_or_default(f.info.updated_at, clock),
     width |-> None,
     height |-> None,
     length |-> None]

file_persist(D, clock, f) ==
    file_tags_persist(sql_replace_into_files(D, file_row(f, clock)),
                      f.info.hash, f.meta.tags)

db_file_delete(D, hash) ==
    [db |-> sql_delete_from_files(D, hash), res |-> Ok(<<>>)]

RECURSIVE file_filter_apply(_)
file_filter_apply(filter) ==
    CASE filter.t = "Tag" -> [q |-> <<"tag", "=", "?">>, p |-> <<filter.v>>]
      [] filter.t = "Kind" ->
            [q |-> <<"kind", "=", "?">>, p |-> <<to_str(filter.v)>>]
      [] filter.t = "And" ->
            LET l == file_filter_apply(filter.left)
                r == file_filter_apply(filter.right)
            IN [q |-> <<"(">> \o l.q \o <<"AND">> \o r.q \o <<")">>,
                p |-> l.p \o r.p]
      [] filter.t = "Or" ->
            LET l == file_filter_apply(filter.left)
                r == file_filter_apply(filter.right)
            IN [q |-> <<"(">> \o l.q \o <<"OR">> \o r.q \o <<")">>,
                p |-> l.p \o r.p]

\* SQLite reading the expression of a WHERE clause from token i of q, the
\* next "?" being parameter k
RECURSIVE sql_expr(_, _, _)
sql_expr(q, i, k) ==
    IF i > Len(q) THEN [ok |-> FALSE]
    ELSE IF q[i] = "("
    THEN LET l == sql_expr(q, i + 1, k)
         IN IF ~l.ok \/ l.next > Len(q) THEN [ok |-> FALSE]
            ELSE IF q[l.next] \notin {"AND", "OR"} THEN [ok |-> FALSE]
            ELSE LET r == sql_expr(q, l.next + 1, l.k)
                 IN IF ~r.ok \/ r.next > Len(q) THEN [ok |-> FALSE]
                    ELSE IF q[r.next] # ")" THEN [ok |-> FALSE]
                    ELSE [ok |-> TRUE,
                          node |-> [op |-> q[l.next], left |-> l.node,
                                    right |-> r.node],
                          next |-> r.next + 1, k |-> r.k]
    ELSE IF i + 2 <= Len(q) /\ q[i + 1] = "=" /\ q[i + 2] = "?"
    THEN [ok |-> TRUE, node |-> [op |-> "=", column |-> q[i], param |-> k],
          next |-> i + 3, k |-> k + 1]
    ELSE [ok |-> FALSE]

RECURSIVE sql_expr_columns(_)
sql_expr_columns(node) ==
    IF node.op = "=" THEN {node.column}
    ELSE sql_expr_columns(node.left) \cup sql_expr_columns(node.right)

RECURSIVE sql_expr_eval(_, _, _)
sql_expr_eval(node, row, params) ==
    CASE node.op = "=" -> row[node.column] = params[node.param]
      [] node.op = "AND" -> sql_expr_eval(node.left, row, params)
                              /\ sql_expr_eval(node.right, row, params)
      [] node.op = "OR" -> sql_expr_eval(node.left, row, params)
                             \/ sql_expr_eval(node.right, row, params)

\* "SELECT COUNT(*) FROM files {where_clause}" with its parameters
sql_count_files(D, where_clause, params) ==
    IF where_clause = <<>>
    THEN IF params = <<>> THEN Ok(Len(D.files))
         ELSE Err("incorrect number of parameters")
    ELSE LET e == sql_expr(where_clause, 2, 1)
         IN IF where_clause[1] # "WHERE" \/ ~e.ok THEN Err("syntax error")
            ELSE IF e.next # Len(where_clause) + 1 THEN Err("syntax error")
            ELSE IF ~(sql_expr_columns(e.node) \subseteq files_columns)
                 THEN Err("no such column")
            ELSE IF Len(params) # e.k - 1
                 THEN Err("incorrect number of parameters")
            ELSE Ok(Cardinality({i \in DOMAIN D.files :
                                    sql_expr_eval(e.node, D.files[i], params)}))

sort_field(sort) ==
    CASE sort = "Updated" -> "updated_at"
      [] sort = "Created" -> "created_at"
      [] sort = "Type" -> "mime"
      [] sort = "Size" -> "size"
      [] sort = "Length" -> "length"

\* the place of a mime string in SQLite's text order
mime_rank(mime) ==
    CASE mime = "audio/mpeg" -> 0
      [] mime = "image/png" -> 1
      [] mime = "inode/x-empty" -> 2
      [] mime = "text/plain" -> 3
      [] mime = "video/mp4" -> 4

\* a column value as a number in SQLite's sort order (NULL before all)
sort_value(row, field) ==
    IF field = "mime"
    THEN IF row.mime = None THEN -1 ELSE mime_rank(row.mime[1])
    ELSE IF field = "length"
    THEN IF row.length = None THEN -1 ELSE row.length[1]
    ELSE row[field]

\* the last sort key taken as the primary one
RECURSIVE row_before_last_key_first(_, _, _)
row_before_last_key_first(a, b, order_parts) ==
    IF order_parts = <<>> THEN FALSE
    ELSE LET part == order_parts[Len(order_parts)]
             va == sort_value(a, part.field)
             vb == sort_value(b, part.field)
         IN IF va = vb
            THEN row_before_last_key_first(a, b,
                     SubSeq(order_parts, 1, Len(order_parts) - 1))
            ELSE IF part.direction = "ASC" THEN va < vb ELSE va > vb

\* row a sorts strictly before row b under "ORDER BY order_parts"
RECURSIVE row_before(_, _, _)
row_before(a, b, order_parts) ==
    IF order_parts = <<>> THEN FALSE
    ELSE LET part == Head(order_parts)
             va == sort_value(a, part.field)
             vb == sort_value(b, part.field)
         IN IF va = vb THEN row_before(a, b, Tail(order_parts))
            ELSE IF part.direction = "ASC" THEN va < vb ELSE va > vb

\* SQLite's sorter: rows that compare equal stay in scan order
RECURSIVE sql_order_by(_, _)
sql_order_by(rows, order_parts) ==
    IF rows = <<>> \/ order_parts = <<>> THEN rows
    ELSE LET n == Len(rows)
             init == sql_order_by(SubSeq(rows, 1, n - 1), order_parts)
             x == rows[n]
             k == Cardinality({i \in DOMAIN init :
                                  ~row_before(x, init[i], order_parts)})
         IN SubSeq(init, 1, k) \o <<x>> \o SubSeq(init, k + 1, Len(init))

\* OFFSET left out of the statement
sql_select_files_no_offset(D, order_parts, params) ==
    IF Len(params) # 2 THEN Err("incorrect number of parameters")
    ELSE LET sorted == sql_order_by(D.files, order_parts)
         IN Ok(SubSeq(sorted, 1, Min(Len(sorted), params[1])))

\* "SELECT * FROM files [ORDER BY ...] LIMIT ? OFFSET ?" with its parameters:
\* the statement has two placeholders
sql_select_files(D, order_parts, params) ==
    IF Len(params) # 2 THEN Err("incorrect number of parameters")
    ELSE LET sorted == sql_order_by(D.files, order_parts)
             limit == params[1]
             offset == params[2]
         IN Ok(SubSeq(sorted, offset + 1, Min(Len(sorted), offset + limit)))

TagOrder == <<"a", "b", "o'c">>

\* "SELECT tag FROM files_tags WHERE file_hash = ?", the rows in tag order
RECURSIVE file_tags_from(_, _, _)
file_tags_from(D, hash, i) ==
    IF i > Len(TagOrder) THEN <<>>
    ELSE [j \in 1..CopiesIn([tag |-> TagOrder[i], file_hash |-> hash],
                            D.files_tags) |-> TagOrder[i]]
         \o file_tags_from(D, hash, i + 1)

file_tags(D, hash) == file_tags_from(D, hash, 1)

\* one entry for each hash that has tag rows, in the order of the SQL result
\* (ORDER BY file_hash), the hashes without tags left out
files_tags_by_result_order(D, hashes) ==
    LET tagged == SelectSeq(<<"md5:Pxy", "md5:Tx", "md5:V">>,
                            LAMBDA h : h \in {hashes[i] : i \in DOMAIN hashes}
                                        /\ file_tags(D, h) # <<>>)
    IN [i \in DOMAIN hashes |->
          IF i <= Len(tagged)
          THEN [file_hash |-> tagged[i], tags |-> file_tags(D, tagged[i])]
          ELSE [file_hash |-> hashes[i], tags |-> <<>>]]

files_tags(D, hashes) ==
    [i \in DOMAIN hashes |->
        [file_hash |-> hashes[i], tags |-> file_tags(D, hashes[i])]]

file_from_row(D, row, get_tags) ==
    [path |-> row.path,
     info |-> [hash |-> row.hash, size |-> row.size, mime |-> row.mime,
               kind |-> from_str(row.kind),
               created_at |-> Some(row.created_at),
               updated_at |-> Some(row.updated_at)],
     meta |-> [title |-> row.title, description |-> row.description,
               tags |-> IF get_tags THEN file_tags(D, row.hash) ELSE <<>>,
               sources |-> <<>>, hash |-> Some(row.hash)]]

\* more rows exist than the pages up to this one hold
has_more_by_total(page) ==
    (IF page.page < 2 THEN 1 ELSE page.page) * page.page_size < page.total

\* FilesPage::has_more
has_more(page) == Len(page.items) = page.page_size

db_files(D, query) ==
    LET applied == file_filter_apply(query.filter[1])
        where_clause == IF query.filter = None THEN <<>>
                        ELSE <<"WHERE">> \o applied.q
        where_params == IF query.filter = None THEN <<>> ELSE applied.p
        count == sql_count_files(D, where_clause, where_params)
        order_parts ==
            [i \in DOMAIN query.sort |->
                [field |-> sort_field(query.sort[i].sort),
                 direction |-> IF query.sort[i].ascending THEN "ASC"
                               ELSE "DESC"]]
        offset == IF query.page < 2 THEN 0 ELSE query.page * query.page_size
        params == where_params \o <<query.page_size, offset>>
        rows == sql_select_files(D, order_parts, params)
        found == [i \in DOMAIN rows.val |-> file_from_row(D, rows.val[i], FALSE)]
        tags == files_tags(D, [i \in DOMAIN found |-> found[i].info.hash])
    IN IF ~count.ok THEN count
       ELSE IF ~rows.ok THEN rows
       ELSE Ok([items |-> [i \in DOMAIN found |->
                              [found[i] EXCEPT !.meta.tags = tags[i].tags]],
                total |-> count.val,
                page |-> query.page,
                page_size |-> query.page_size])

\* "SELECT * FROM files WHERE hash = ?", the first row or the error not_found
db_file(D, hash) ==
    LET rows == SelectSeq(D.files, LAMBDA r : r.hash = hash)
    IN IF rows = <<>> THEN Err("not_found")
       ELSE Ok(file_from_row(D, rows[1], TRUE))

(***************************************************************************)
(* storage/mod.rs: the items of the tree                                   *)
(***************************************************************************)
\* the document serde_yaml reads as a Gallery
GalleryDoc == <<"title:", "g", "items:", "path:", "a">>

gallery(S, path) ==
    IF ~ends_with(path, ".gallery.yaml")
    THEN Err("gallery path must end with .gallery.yaml")
    ELSE LET f == fs_read(S, root \o path)
         IN IF ~f.ok THEN f
            ELSE IF f.val # GalleryDoc THEN Err("MalformedData")
            ELSE Ok([item |-> "Gallery", path |-> path, title |-> "g"])

importer(S, path) ==
    IF ~ends_with(path, ".importer.js")
    THEN Err("importer path must end with .importer.js")
    ELSE LET f == fs_read(S, root \o path)
         IN IF ~f.ok THEN f
            ELSE Ok([item |-> "Importer", path |-> path, content |-> f.val])

item(S, path) ==
    IF ends_with(path, ".gallery.yaml") THEN gallery(S, path)
    ELSE IF ends_with(path, ".importer.js") THEN importer(S, path)
    ELSE LET f == file(S, path)
         IN IF f.ok THEN Ok([item |-> "File", file |-> f.val]) ELSE f

\* the entries of the walk that are neither directories nor sidecars, as
\* paths relative to the root
walk_entries(S) == {n \in DOMAIN S.files : ~ends_with(n, ".meta.yaml")}

\* the orders in which read_dir may yield the entries
walk_orders(S) ==
    LET E == walk_entries(S)
        n == Cardinality(E)
    IN {o \in [1..n -> E] : \A i, j \in 1..n : o[i] = o[j] => i = j}

\* the walk ended at the first entry that fails to load
RECURSIVE items_until_error(_, _)
items_until_error(S, order) ==
    IF order = <<>> THEN <<>>
    ELSE IF ~item(S, Head(order)).ok THEN <<item(S, Head(order))>>
    ELSE <<item(S, Head(order))>> \o items_until_error(S, Tail(order))

\* Storage::items for one order of the walk
items(S, order) == [i \in DOMAIN order |-> item(S, order[i])]

(***************************************************************************)
(* app.rs: the facade                                                      *)
(***************************************************************************)
\* A value that a statement of the code computes once and then uses is bound
\* once, as the one element of a set: CHOOSE out \in {e(x) : x \in {v}} : TRUE
\* is e(v).

\* the pass going on after an entry that fails
RECURSIVE index_loop_skip_errors(_, _, _, _)
index_loop_skip_errors(D, clock, entries, i) ==
    IF i > Len(entries) THEN [db |-> D, res |-> Ok(<<>>)]
    ELSE IF entries[i].ok /\ entries[i].val.item = "File"
    THEN CHOOSE out \in
            {index_loop_skip_errors(p.db, clock, entries, i + 1) :
                p \in {file_persist(D, clock, entries[i].val.file)}} : TRUE
    ELSE index_loop_skip_errors(D, clock, entries, i + 1)

\* the for_each of App::index over the entries from position i on;
\* unwrap() of an error panics and ends the pass where it stands
RECURSIVE index_loop(_, _, _, _)
index_loop(D, clock, entries, i) ==
    IF i > Len(entries) THEN [db |-> D, res |-> Ok(<<>>)]
    ELSE IF ~entries[i].ok THEN [db |-> D, res |-> Err("panic")]
    ELSE IF entries[i].val.item = "File"
    THEN CHOOSE out \in
            {IF ~p.res.ok THEN [db |-> p.db, res |-> Err("panic")]
             ELSE index_loop(p.db, clock, entries, i + 1) :
                p \in {file_persist(D, clock, entries[i].val.file)}} : TRUE
    ELSE index_loop(D, clock, entries, i + 1)

\* the pass stops after the first entry
index_first_entry_only(S, D, clock, order) ==
    CHOOSE out \in
        {index_loop(D, clock, entries, 1) :
            entries \in {items(S, SubSeq(order, 1, Min(1, Len(order))))}} : TRUE

\* the rows whose path holds no content deleted before the pass
index_pruning(S, D, clock, order) ==
    CHOOSE out \in
        {index_loop([files |-> SelectSeq(D.files,
                         LAMBDA r : file_path(r.path) \in DOMAIN S.files),
                     files_tags |-> cascade(D,
                         {D.files[i].hash : i \in {j \in DOMAIN D.files :
                             file_path(D.files[j].path) \notin DOMAIN S.files}})],
                    clock, entries, 1) :
            entries \in {items(S, order)}} : TRUE

index(S, D, clock, order) ==
    CHOOSE out \in
        {index_loop(D, clock, entries, 1) : entries \in {items(S, order)}} : TRUE

app_file(D, hash) == db_file(D, hash)

\* Option::or
or(a, b) == IF a # None THEN a ELSE b

\* Option::unwrap_or
unwrap_or(a, b) == IF a # None THEN a[1] ELSE b

\* the sidecar written, the index row left as it was
file_update_no_persist(D, clock, u) == [fs |-> u.fs, db |-> D, res |-> u.res]

\* db.file_persist(&file)?; Ok(file), for the outcome u of file_meta_update
file_update_persist(D, clock, u) ==
    LET p == file_persist(D, clock, u.res.val)
    IN IF ~u.res.ok THEN [fs |-> u.fs, db |-> D, res |-> u.res]
       ELSE IF ~p.res.ok THEN [fs |-> u.fs, db |-> p.db, res |-> p.res]
       ELSE [fs |-> u.fs, db |-> p.db, res |-> u.res]

\* self.storage.file_meta_update(&file.path, meta)? and what follows it
file_update_write(S, D, clock, path, meta) ==
    CHOOSE out \in
        {file_update_persist(D, clock, u) :
            u \in {file_meta_update(S, path, meta)}} : TRUE

\* the supplied fields written over whatever the sidecar holds
file_update_meta_no_merge(data, cur_meta) ==
    [title |-> data.title, description |-> data.description,
     tags |-> unwrap_or(data.tags, <<>>), sources |-> <<>>, hash |-> None]

\* the FileMeta that App::file_update builds
file_update_meta(data, cur_meta) ==
    [title |-> or(data.title, cur_meta.title),
     description |-> or(data.description, cur_meta.description),
     tags |-> unwrap_or(data.tags, cur_meta.tags),
     sources |-> cur_meta.sources,
     hash |-> None]

app_file_update(S, D, clock, data) ==
    LET f == db_file(D, data.hash)
        cur_meta == file_meta(S, f.val.path)
    IN IF ~f.ok THEN [fs |-> S, db |-> D, res |-> f]
       ELSE IF ~cur_meta.ok THEN [fs |-> S, db |-> D, res |-> cur_meta]
       ELSE CHOOSE out \in
               {file_update_write(S, D, clock, f.val.path, meta) :
                   meta \in {file_update_meta(data, cur_meta.val)}} : TRUE

\* the row deleted before the store removal
app_file_delete_row_first(S, D, hash) ==
    LET f == db_file(D, hash)
        d == db_file_delete(D, hash)
        s == file_delete(S, f.val.path)
    IN IF ~f.ok THEN [fs |-> S, db |-> D, res |-> f]
       ELSE [fs |-> s.fs, db |-> d.db, res |-> s.res]

\* the row left in the index
app_file_delete_keep_row(S, D, hash) ==
    LET f == db_file(D, hash)
        s == file_delete(S, f.val.path)
    IN IF ~f.ok THEN [fs |-> S, db |-> D, res |-> f]
       ELSE [fs |-> s.fs, db |-> D, res |-> s.res]

app_file_delete(S, D, hash) ==
    LET f == db_file(D, hash)
        s == file_delete(S, f.val.path)
        d == db_file_delete(D, hash)
    IN IF ~f.ok THEN [fs |-> S, db |-> D, res |-> f]
       ELSE IF ~s.res.ok THEN [fs |-> s.fs, db |-> D, res |-> s.res]
       ELSE [fs |-> s.fs, db |-> d.db, res |-> d.res]

(***************************************************************************)
(* Object Store operations as actions                                      *)
(***************************************************************************)
Init ==
    /\ fs = [files |-> <<>>, dirs |-> {root}]
    /\ db = [files |-> <<>>, files_tags |-> EmptyBag]
    /\ now = 0
    /\ last = [op |-> "new"]

FileCreate(path, meta, input) ==
    LET r == file_create(fs, path, meta, input)
    IN /\ fs' = r.fs
       /\ last' = [op |-> "file_create", path |-> path, meta |-> meta,
                   input |-> input, res |-> r.res]
       /\ UNCHANGED <<db, now>>

FileMetaUpdate(path, meta) ==
    LET r == file_meta_update(fs, path, meta)
    IN /\ fs' = r.fs
       /\ last' = [op |-> "file_meta_update", path |-> path, meta |-> meta,
                   res |-> r.res]
       /\ UNCHANGED <<db, now>>

FileDelete(path) ==
    LET r == file_delete(fs, path)
    IN /\ fs' = r.fs
       /\ last' = [op |-> "file_delete", path |-> path, res |-> r.res]
       /\ UNCHANGED <<db, now>>

FileMeta(path) ==
    /\ last' = [op |-> "file_meta", path |-> path, res |-> file_meta(fs, path)]
    /\ UNCHANGED <<fs, db, now>>

FileInfo(path) ==
    /\ last' = [op |-> "file_info", path |-> path, res |-> file_info(fs, path)]
    /\ UNCHANGED <<fs, db, now>>

StorageNext ==
    \/ \E path \in Paths, meta \in Metas, input \in Contents :
           FileCreate(path, meta, input)
    \/ \E path \in Paths, meta \in Metas : FileMetaUpdate(path, meta)
    \/ \E path \in Paths : FileDelete(path)
    \/ \E path \in Paths : FileMeta(path)
    \/ \E path \in Paths : FileInfo(path)

StorageSpec == Init /\ [][StorageNext]_vars

(***************************************************************************)
(* Catalog Index operations as actions                                     *)
(***************************************************************************)
Tags == {"a", "b", "o'c"}
TagLists == { <<>>, <<"a">>, <<"a", "b", "a">>, <<"o'c">> }

IndexHashes == {compute_hash(c) : c \in Contents}
IndexPaths == {PathA, PathAMeta}
IndexKinds == {"Image", "Other"}

kind_mime(kind) ==
    CASE kind = "Image" -> "image/png"
      [] kind = "Video" -> "video/mp4"
      [] kind = "Audio" -> "audio/mpeg"
      [] kind = "Other" -> "text/plain"

IndexFile(hash, path, kind, tags) ==
    [path |-> path,
     info |-> [hash |-> hash, size |-> 1, mime |-> Some(kind_mime(kind)),
               kind |-> kind, created_at |-> None, updated_at |-> None],
     meta |-> [title |-> None, description |-> None, tags |-> tags,
               sources |-> <<>>, hash |-> None]]

IndexFiles ==
    {IndexFile(h, p, k, t) :
        h \in IndexHashes, p \in IndexPaths, k \in IndexKinds, t \in TagLists}

\* the tag rows of hash
TagRows(D, hash) == {e \in DOMAIN D.files_tags : e.file_hash = hash}

DbFilePersist(f) ==
    LET r == file_persist(db, now, f)
    IN /\ db' = r.db
       /\ last' = [op |-> "file_persist", file |-> f, res |-> r.res,
                   replaced |-> Cardinality({i \in DOMAIN db.files :
                       unique_conflict(db.files[i], file_row(f, now))})]
       /\ UNCHANGED <<fs, now>>

DbFileDelete(hash) ==
    LET r == db_file_delete(db, hash)
    IN /\ db' = r.db
       /\ last' = [op |-> "db_file_delete", hash |-> hash, res |-> r.res,
                   cascaded |-> Cardinality(TagRows(db, hash))]
       /\ UNCHANGED <<fs, now>>

IndexNext ==
    \/ \E f \in IndexFiles : DbFilePersist(f)
    \/ \E hash \in IndexHashes : DbFileDelete(hash)

IndexSpec == Init /\ [][IndexNext]_vars

(***************************************************************************)
(* Listing: upserts of three files and list(query)                         *)
(***************************************************************************)
MaxPage == 2
MaxPageSize == 2

ListHashes == IndexHashes \cup {compute_hash(<<"T", "x">>)}

list_path(hash) ==
    CASE hash = "md5:Pxy" -> PathA
      [] hash = "md5:V" -> PathAMeta
      [] hash = "md5:Tx" -> PathAB

list_size(hash) ==
    CASE hash = "md5:Pxy" -> 3
      [] hash = "md5:V" -> 1
      [] hash = "md5:Tx" -> 2

ListFile(hash, kind, tags) ==
    [IndexFile(hash, list_path(hash), kind, tags)
        EXCEPT !.info.size = list_size(hash)]

ListFiles ==
    {ListFile(h, "Image", <<"a">>) : h \in ListHashes}
        \cup {ListFile(h, "Video", <<"a">>) : h \in IndexHashes}
        \cup {ListFile(h, "Image", <<>>) : h \in IndexHashes}

FilterTagA == [t |-> "Tag", v |-> "a"]
FilterKindImage == [t |-> "Kind", v |-> "Image"]
FilterKindVideo == [t |-> "Kind", v |-> "Video"]
FilterAnd == [t |-> "And", left |-> FilterTagA, right |-> FilterKindImage]
FilterOr == [t |-> "Or", left |-> FilterKindVideo, right |-> FilterAnd]
Filters == {FilterTagA, FilterKindImage, FilterAnd, FilterOr}

Sorts == { <<>>, << [sort |-> "Size", ascending |-> FALSE] >> }

ListQueries ==
    {[page |-> p, page_size |-> n, filter |-> None, sort |-> s] :
        p \in 0..MaxPage, n \in 1..MaxPageSize, s \in Sorts}
    \cup {[page |-> 1, page_size |-> n, filter |-> Some(f), sort |-> <<>>] :
            n \in 1..MaxPageSize, f \in Filters}

DbFiles(query) ==
    /\ last' = [op |-> "files", query |-> query, res |-> db_files(db, query)]
    /\ UNCHANGED <<fs, db, now>>

DbFile(hash) ==
    /\ last' = [op |-> "file", hash |-> hash, res |-> db_file(db, hash)]
    /\ UNCHANGED <<fs, db, now>>

ListNext ==
    \/ \E f \in ListFiles : DbFilePersist(f)
    \/ \E hash \in ListHashes : DbFileDelete(hash)
    \/ \E query \in ListQueries : DbFiles(query)
    \/ \E hash \in ListHashes : DbFile(hash)

ListSpec == Init /\ [][ListNext]_vars

(***************************************************************************)
(* Listing by time: upserts at different seconds of the clock              *)
(***************************************************************************)
MaxClock == 2

\* CURRENT_TIMESTAMP moves on by a second
Tick ==
    /\ now < MaxClock
    /\ now' = now + 1
    /\ UNCHANGED <<fs, db, last>>

SortUpdatedDesc == << [sort |-> "Updated", ascending |-> FALSE] >>

OrderQueries ==
    {[page |-> 1, page_size |-> n, filter |-> None, sort |-> s] :
        n \in 1..(MaxPageSize + 1), s \in {<<>>, SortUpdatedDesc}}

OrderFiles == {ListFile(h, "Image", <<>>) : h \in ListHashes}

OrderNext ==
    \/ Tick
    \/ \E f \in OrderFiles : DbFilePersist(f)
    \/ \E query \in OrderQueries : DbFiles(query)

OrderSpec == Init /\ [][OrderNext]_vars

(***************************************************************************)
(* The facade over store and index: create and delete in the store,        *)
(* Reconciliation, get, updateFile, deleteFile                             *)
(***************************************************************************)
PathB == << <<"b">> >>
PathGallery == << <<"g", ".gallery.yaml">> >>
PathImporter == << <<"i", ".importer.js">> >>
AppPaths == {PathA, PathB}

\* FileUpdate without its hash
Updates ==
    {[title |-> Some("t"), description |-> None, tags |-> Some(<<"b", "a", "b">>)],
     [title |-> None, description |-> Some("~"), tags |-> Some(<<>>)],
     [title |-> None, description |-> None, tags |-> Some(<<"o'c">>)]}

Items(order) ==
    /\ last' = [op |-> "items", order |-> order, res |-> items(fs, order)]
    /\ UNCHANGED <<fs, db, now>>

Index(order) ==
    \E r \in {index(fs, db, now, order)} :
       /\ db' = r.db
       /\ last' = [op |-> "index", order |-> order, res |-> r.res]
       /\ UNCHANGED <<fs, now>>

AppFile(hash) ==
    /\ last' = [op |-> "file", hash |-> hash, res |-> app_file(db, hash)]
    /\ UNCHANGED <<fs, db, now>>

AppFileUpdate(data) ==
    \E r \in {app_file_update(fs, db, now, data)} :
       /\ fs' = r.fs
       /\ db' = r.db
       /\ last' = [op |-> "file_update", data |-> data, res |-> r.res]
       /\ UNCHANGED now

AppFileDelete(hash) ==
    \E r \in {app_file_delete(fs, db, hash)} :
       /\ fs' = r.fs
       /\ db' = r.db
       /\ last' = [op |-> "app_file_delete", hash |-> hash, res |-> r.res]
       /\ UNCHANGED now

\* the facade over a store of two files
\* FileUpdate: a hash with the fields to change
FileUpdates ==
    {[hash |-> hash, title |-> u.title, description |-> u.description,
      tags |-> u.tags] : hash \in IndexHashes, u \in Updates}

FacadeNext ==
    \/ \E input \in Contents : FileCreate(PathA, MetaFull, input)
    \/ FileCreate(PathB, MetaFull, <<"V">>)
    \/ \E path \in AppPaths : FileDelete(path)
    \/ \E order \in walk_orders(fs) : Index(order)
    \/ \E hash \in IndexHashes : AppFile(hash)
    \/ \E data \in FileUpdates : AppFileUpdate(data)
    \/ \E hash \in IndexHashes : AppFileDelete(hash)

FacadeSpec == Init /\ [][FacadeNext]_vars

\* Reconciliation over a store of files, a gallery and an importer
ReconcileNext ==
    \/ \E path \in AppPaths, input \in Contents :
           FileCreate(path, MetaFull, input)
    \/ \E input \in {GalleryDoc, <<"V">>} :
           FileCreate(PathGallery, FileMetaDefault, input)
    \/ FileCreate(PathImporter, FileMetaDefault, <<"V">>)
    \/ \E path \in AppPaths \cup {PathGallery} : FileDelete(path)
    \/ \E order \in walk_orders(fs) : Index(order)
    \/ \E order \in walk_orders(fs) : Items(order)

ReconcileSpec == Init /\ [][ReconcileNext]_vars

(***************************************************************************)
(* Two create calls running at once on one store.  last.calls holds, for   *)
(* each call, its arguments, the statement it is at and its result.        *)
(***************************************************************************)
CreatePaths == {PathA, PathB, PathAMeta, PathAB}

Pending == Err("pending")

NewCall(path, meta, input) ==
    [path |-> path, meta |-> meta, input |-> input, pc |-> "metadata",
     info |-> Pending, res |-> Pending]

CreateStart(path1, path2) ==
    /\ last.op = "new"
    /\ path1 # path2
    /\ last' = [op |-> "file_create2",
                calls |-> << NewCall(path1, MetaFull, <<"P", "x", "y">>),
                             NewCall(path2, MetaTitle, <<"V">>) >>]
    /\ UNCHANGED <<fs, db, now>>

Done(c, res) == [c EXCEPT !.pc = "done", !.res = res]

\* one statement of file_create for the call c: the store and the call after it
file_create_step(S, c) ==
    LET full_path == file_path(c.path)
        parent_dir == Parent(full_path)
    IN CASE c.pc = "metadata" ->
              IF path_exists(S, full_path)
              THEN [fs |-> S, call |-> Done(c, Err("path_already_exists"))]
              ELSE [fs |-> S, call |-> [c EXCEPT !.pc = "create_dir_all"]]
         [] c.pc = "create_dir_all" ->
              LET mk == IF parent_dir # root THEN create_dir_all(S, parent_dir)
                        ELSE [fs |-> S, res |-> Ok(<<>>)]
              IN IF mk.res.ok
                 THEN [fs |-> mk.fs, call |-> [c EXCEPT !.pc = "create"]]
                 ELSE [fs |-> S, call |-> Done(c, mk.res)]
         [] c.pc = "create" ->
              LET f == fs_create(S, full_path, <<>>)
              IN IF f.res.ok
                 THEN [fs |-> f.fs, call |-> [c EXCEPT !.pc = "copy"]]
                 ELSE [fs |-> S, call |-> Done(c, f.res)]
         [] c.pc = "copy" ->
              [fs |-> fs_write(S, full_path, c.input),
               call |-> [c EXCEPT !.pc = "meta_create"]]
         [] c.pc = "meta_create" ->
              LET f == fs_create(S, meta_path(c.path), <<>>)
              IN IF f.res.ok
                 THEN [fs |-> f.fs, call |-> [c EXCEPT !.pc = "to_writer"]]
                 ELSE [fs |-> S, call |-> Done(c, f.res)]
         [] c.pc = "to_writer" ->
              [fs |-> fs_write(S, meta_path(c.path), to_yaml(c.meta)),
               call |-> [c EXCEPT !.pc = "file_info"]]
         [] c.pc = "file_info" ->
              LET info == file_info(S, c.path)
              IN IF ends_with(c.path, ".gallery.yaml")
                    \/ ends_with(c.path, ".importer.js")
                 THEN [fs |-> S, call |-> Done(c, file(S, c.path))]
                 ELSE IF ~info.ok THEN [fs |-> S, call |-> Done(c, info)]
                 ELSE [fs |-> S,
                       call |-> [c EXCEPT !.pc = "file_meta", !.info = info]]
         [] c.pc = "file_meta" ->
              LET meta == file_meta(S, c.path)
              IN IF ~meta.ok THEN [fs |-> S, call |-> Done(c, meta)]
                 ELSE [fs |-> S,
                       call |-> Done(c, Ok([path |-> c.path,
                                            info |-> c.info.val,
                                            meta |-> meta.val]))]

CreateStep(i) ==
    /\ last.op = "file_create2"
    /\ last.calls[i].pc # "done"
    /\ LET r == file_create_step(fs, last.calls[i])
       IN /\ fs' = r.fs
          /\ last' = [last EXCEPT !.calls[i] = r.call]
    /\ UNCHANGED <<db, now>>

CreateNext ==
    \/ \E path1, path2 \in CreatePaths : CreateStart(path1, path2)
    \/ \E i \in {1, 2} : CreateStep(i)

CreateSpec == Init /\ [][CreateNext]_vars

\* two create calls on one path
CreateStartSame(path) ==
    /\ last.op = "new"
    /\ last' = [op |-> "file_create2",
                calls |-> << NewCall(path, MetaFull, <<"P", "x", "y">>),
                             NewCall(path, MetaTitle, <<"V">>) >>]
    /\ UNCHANGED <<fs, db, now>>

SamePathNext ==
    \/ \E path \in CreatePaths : CreateStartSame(path)
    \/ \E i \in {1, 2} : CreateStep(i)

SamePathSpec == Init /\ [][SamePathNext]_vars

(***************************************************************************)
(* The Object Store called with a path that has a parent-directory         *)
(* segment.  The name <<"..">> under the root is the directory above it.   *)
(***************************************************************************)
PathUp == << <<"..">>, <<"x">> >>
EscapePaths == {PathA, PathUp}

EscapeNext ==
    \/ \E path \in EscapePaths, meta \in Metas, input \in Contents :
           FileCreate(path, meta, input)
    \/ \E path \in EscapePaths, meta \in Metas : FileMetaUpdate(path, meta)
    \/ \E path \in EscapePaths : FileDelete(path)
    \/ \E path \in EscapePaths : FileMeta(path)
    \/ \E path \in EscapePaths : FileInfo(path)

EscapeSpec == Init /\ [][EscapeNext]_vars

(***************************************************************************)
(* Object Store delete, statement by statement.  last.had is what stood at *)
(* the content path and at the sidecar path when the call began.           *)
(***************************************************************************)
PathAMetaB == << <<"a", ".meta.yaml">>, <<"b">> >>
DeletePaths == {PathA, PathAMeta, PathAB, PathAMetaB}

\* the content removed first, the sidecar after it
file_delete_step_content_first(S, c) ==
    IF c.pc = "remove_meta"
    THEN LET r == fs_remove_file(S, file_path(c.path))
         IN IF ~r.res.ok THEN [fs |-> S, call |-> [c EXCEPT !.pc = "done", !.res = r.res]]
            ELSE [fs |-> r.fs, call |-> [c EXCEPT !.pc = "remove_file"]]
    ELSE LET m == fs_remove_file(S, meta_path(c.path))
         IN [fs |-> m.fs,
             call |-> [c EXCEPT !.pc = "done",
                                !.res = IF m.res.ok \/ m.res.err = "NotFound"
                                        THEN Ok(<<>>) ELSE m.res]]

file_delete_step(S, c) ==
    IF c.pc = "remove_meta"
    THEN LET m == fs_remove_file(S, meta_path(c.path))
         IN IF ~m.res.ok /\ m.res.err # "NotFound"
            THEN [fs |-> S, call |-> [c EXCEPT !.pc = "done", !.res = m.res]]
            ELSE [fs |-> m.fs, call |-> [c EXCEPT !.pc = "remove_file"]]
    ELSE LET r == fs_remove_file(S, file_path(c.path))
         IN [fs |-> r.fs, call |-> [c EXCEPT !.pc = "done", !.res = r.res]]

DeleteIdle == IF last.op = "file_delete_steps" THEN last.pc = "done" ELSE TRUE

DeleteStart(path) ==
    /\ DeleteIdle
    /\ last' = [op |-> "file_delete_steps", path |-> path, pc |-> "remove_meta",
                res |-> [ok |-> FALSE, err |-> "pending"],
                had |-> [content |-> lookup(fs, file_path(path)),
                         sidecar |-> lookup(fs, meta_path(path))]]
    /\ UNCHANGED <<fs, db, now>>

DeleteStep ==
    /\ ~DeleteIdle
    /\ \E r \in {file_delete_step(fs, last)} :
           /\ fs' = r.fs
           /\ last' = r.call
    /\ UNCHANGED <<db, now>>

DeleteNext ==
    \/ \E path \in DeletePaths, meta \in {FileMetaDefault, MetaTitle} :
           DeleteIdle /\ FileCreate(path, meta, <<"V">>)
    \/ \E path \in DeletePaths : DeleteStart(path)
    \/ DeleteStep

DeleteSpec == Init /\ [][DeleteNext]_vars

(***************************************************************************)
(* Index upsert, statement by statement, by two calls on two connections.  *)
(* Every statement is one autocommit transaction.  last.calls holds, for   *)
(* each call, the file, the statement it is at, the tag it inserts next,   *)
(* its result, and the number of tag rows its row replace removed.         *)
(***************************************************************************)
UpsertHash == compute_hash(<<"V">>)

UpsertFiles ==
    {IndexFile(UpsertHash, PathA, "Image", <<"a">>),
     IndexFile(UpsertHash, PathA, "Other", <<"b">>),
     IndexFile(UpsertHash, PathAMeta, "Other", <<"a", "b">>)}

NewPersist(f) ==
    [file |-> f, pc |-> "replace_row", k |-> 1, res |-> Pending, cascaded |-> 0]

\* one statement of file_persist and file_tags_persist for the call c
file_persist_step(D, clock, c) ==
    LET hash == c.file.info.hash
        tags == c.file.meta.tags
    IN CASE c.pc = "replace_row" ->
              LET D2 == sql_replace_into_files(D, file_row(c.file, clock))
              IN [db |-> D2,
                  call |-> [c EXCEPT !.pc = "delete_stale",
                                     !.cascaded = BagCardinality(D.files_tags)
                                                  - BagCardinality(D2.files_tags)]]
         [] c.pc = "delete_stale" ->
              LET list == sql_in_list(quoted_tags(tags), 1, {})
                  stale(e) == e.file_hash = hash /\ tag_chars(e.tag) \notin list.val
              IN IF ~list.ok THEN [db |-> D, call |-> Done(c, list)]
                 ELSE [db |-> [D EXCEPT !.files_tags =
                                  BagKeep(@, {e \in DOMAIN @ : ~stale(e)})],
                       call |-> IF tags = <<>> THEN Done(c, Ok(<<>>))
                                ELSE [c EXCEPT !.pc = "insert_tag"]]
         [] c.pc = "insert_tag" ->
              LET r == sql_replace_into_files_tags(D, hash, tags[c.k])
              IN IF ~r.res.ok THEN [db |-> D, call |-> Done(c, r.res)]
                 ELSE [db |-> r.db,
                       call |-> IF c.k = Len(tags) THEN Done(c, Ok(<<>>))
                                ELSE [c EXCEPT !.k = @ + 1]]

PersistStart(f1, f2) ==
    /\ last.op \in {"new", "file_persist"}
    /\ f1 # f2
    /\ last' = [op |-> "file_persist2", calls |-> <<NewPersist(f1), NewPersist(f2)>>]
    /\ UNCHANGED <<fs, db, now>>

PersistStep(i) ==
    /\ last.op = "file_persist2"
    /\ last.calls[i].pc # "done"
    /\ \E r \in {file_persist_step(db, now, last.calls[i])} :
          /\ db' = r.db
          /\ last' = [last EXCEPT !.calls[i] = r.call]
    /\ UNCHANGED <<fs, now>>

UpsertNext ==
    \/ \E f \in UpsertFiles : last.op = "new" /\ DbFilePersist(f)
    \/ \E f1, f2 \in UpsertFiles : PersistStart(f1, f2)
    \/ \E i \in {1, 2} : PersistStep(i)

UpsertSpec == Init /\ [][UpsertNext]_vars

(***************************************************************************)
(* Object Store create with a sidecar that cannot be written: a directory  *)
(* stands at the sidecar path, or the operating system refuses the create  *)
(* or the write.                                                           *)
(***************************************************************************)
PartialPaths == {PathA, PathAB, PathAMetaB}
SidecarFaults == {"none", "sidecar_create", "sidecar_write"}

FileCreateFaulty(path, meta, input, fault) ==
    \E r \in {file_create_faulty(fs, path, meta, input, fault)} :
       /\ fs' = r.fs
       /\ last' = [op |-> "file_create_faulty", path |-> path, meta |-> meta,
                   input |-> input, fault |-> fault, res |-> r.res,
                   stage |-> r.stage]
       /\ UNCHANGED <<db, now>>

PartialNext ==
    \/ \E path \in PartialPaths, meta \in {MetaFull, MetaTitle},
          input \in Contents, fault \in SidecarFaults :
           FileCreateFaulty(path, meta, input, fault)
    \/ \E path \in PartialPaths : FileDelete(path)
    \/ \E path \in PartialPaths : FileMeta(path)

PartialSpec == Init /\ [][PartialNext]_vars

(***************************************************************************)
(* Listing with sort lists of one and two keys                             *)
(***************************************************************************)
SortPageSize == 3

SortLists ==
    { << [sort |-> "Type", ascending |-> TRUE],
         [sort |-> "Size", ascending |-> FALSE] >>,
      << [sort |-> "Type", ascending |-> FALSE],
         [sort |-> "Size", ascending |-> TRUE] >>,
      << [sort |-> "Length", ascending |-> TRUE],
         [sort |-> "Size", ascending |-> TRUE] >>,
      << [sort |-> "Size", ascending |-> TRUE],
         [sort |-> "Type", ascending |-> TRUE] >>,
      << [sort |-> "Type", ascending |-> TRUE] >> }

SortQueries ==
    {[page |-> 1, page_size |-> n, filter |-> None, sort |-> s] :
        n \in 1..SortPageSize, s \in SortLists}

SortNext ==
    \/ \E f \in ListFiles : DbFilePersist(f)
    \/ \E query \in SortQueries : DbFiles(query)

SortSpec == Init /\ [][SortNext]_vars

(***************************************************************************)
(* Reconciliation over a store with entries that fail: a gallery that does *)
(* not parse, and a file whose upsert fails on its tag                     *)
(***************************************************************************)
MetaQuoteTag ==
    [title |-> None, description |-> None, tags |-> <<"o'c">>,
     sources |-> <<>>, hash |-> None]

PassNext ==
    \/ \E input \in Contents : FileCreate(PathA, MetaFull, input)
    \/ FileCreate(PathB, MetaQuoteTag, <<"V">>)
    \/ FileCreate(PathGallery, FileMetaDefault, <<"V">>)
    \/ \E input \in Contents : FileCreate(PathImporter, MetaFull, input)
    \/ \E path \in {PathA, PathB, PathGallery} : FileDelete(path)
    \/ \E order \in walk_orders(fs) : Index(order)

PassSpec == Init /\ [][PassNext]_vars

(***************************************************************************)
(* Facade updateFile and deleteFile of one hash, running at once, each     *)
(* statement by statement.  last.update and last.delete hold, for each     *)
(* call, the statement it is at, what it has read so far and its result.   *)
(***************************************************************************)
\* one statement of App::file_update for the call c
app_file_update_step(S, D, clock, c) ==
    CASE c.pc = "db_file" ->
            LET f == db_file(D, c.data.hash)
            IN IF ~f.ok THEN [fs |-> S, db |-> D, call |-> Done(c, f)]
               ELSE [fs |-> S, db |-> D,
                     call |-> [c EXCEPT !.pc = "file_meta", !.path = f.val.path]]
      [] c.pc = "file_meta" ->
            LET cur_meta == file_meta(S, c.path)
            IN IF ~cur_meta.ok THEN [fs |-> S, db |-> D, call |-> Done(c, cur_meta)]
               ELSE [fs |-> S, db |-> D,
                     call |-> [c EXCEPT !.pc = "file_info",
                                        !.meta = file_update_meta(c.data, cur_meta.val)]]
      [] c.pc = "file_info" ->
            LET info == file_info(S, c.path)
            IN IF ~info.ok THEN [fs |-> S, db |-> D, call |-> Done(c, info)]
               ELSE [fs |-> S, db |-> D,
                     call |-> [c EXCEPT !.pc = "meta_write", !.info = info.val]]
      [] c.pc = "meta_write" ->
            LET sidecar == fs_create(S, meta_path(c.path), to_yaml(c.meta))
            IN IF ~sidecar.res.ok
               THEN [fs |-> S, db |-> D, call |-> Done(c, sidecar.res)]
               ELSE [fs |-> sidecar.fs, db |-> D,
                     call |-> [c EXCEPT !.pc = "file_persist"]]
      [] c.pc = "file_persist" ->
            LET file_ == [path |-> c.path, info |-> c.info, meta |-> c.meta]
                p == file_persist(D, clock, file_)
            IN [fs |-> S, db |-> p.db,
                call |-> Done(c, IF p.res.ok THEN Ok(file_) ELSE p.res)]

\* one statement of App::file_delete for the call c
app_file_delete_step(S, D, c) ==
    CASE c.pc = "db_file" ->
            LET f == db_file(D, c.hash)
            IN IF ~f.ok THEN [fs |-> S, db |-> D, call |-> Done(c, f)]
               ELSE [fs |-> S, db |-> D,
                     call |-> [c EXCEPT !.pc = "remove_meta", !.path = f.val.path]]
      [] c.pc = "remove_meta" ->
            LET m == fs_remove_file(S, meta_path(c.path))
            IN IF ~m.res.ok /\ m.res.err # "NotFound"
               THEN [fs |-> S, db |-> D, call |-> Done(c, m.res)]
               ELSE [fs |-> m.fs, db |-> D, call |-> [c EXCEPT !.pc = "remove_file"]]
      [] c.pc = "remove_file" ->
            LET r == fs_remove_file(S, file_path(c.path))
            IN IF ~r.res.ok THEN [fs |-> S, db |-> D, call |-> Done(c, r.res)]
               ELSE [fs |-> r.fs, db |-> D, call |-> [c EXCEPT !.pc = "db_delete"]]
      [] c.pc = "db_delete" ->
            LET d == db_file_delete(D, c.hash)
            IN [fs |-> S, db |-> d.db, call |-> Done(c, d.res)]

RaceIdle == last.op # "update_delete"

RaceStart(hash, u) ==
    /\ RaceIdle
    /\ db_file(db, hash).ok
    /\ last' = [op |-> "update_delete",
                update |-> [pc |-> "db_file", res |-> Pending,
                            data |-> [hash |-> hash, title |-> u.title,
                                      description |-> u.description,
                                      tags |-> u.tags],
                            path |-> <<>>, meta |-> FileMetaDefault, info |-> <<>>],
                delete |-> [pc |-> "db_file", res |-> Pending, hash |-> hash,
                            path |-> <<>>]]
    /\ UNCHANGED <<fs, db, now>>

UpdateStep ==
    /\ ~RaceIdle
    /\ last.update.pc # "done"
    /\ \E r \in {app_file_update_step(fs, db, now, last.update)} :
          /\ fs' = r.fs
          /\ db' = r.db
          /\ last' = [last EXCEPT !.update = r.call]
    /\ UNCHANGED now

DeleteFileStep ==
    /\ ~RaceIdle
    /\ last.delete.pc # "done"
    /\ \E r \in {app_file_delete_step(fs, db, last.delete)} :
          /\ fs' = r.fs
          /\ db' = r.db
          /\ last' = [last EXCEPT !.delete = r.call]
    /\ UNCHANGED now

UpdateDeleteNext ==
    \/ \E path \in AppPaths, input \in Contents :
           RaceIdle /\ FileCreate(path, MetaFull, input)
    \/ \E order \in walk_orders(fs) : RaceIdle /\ Index(order)
    \/ \E hash \in IndexHashes, u \in Updates : RaceStart(hash, u)
    \/ UpdateStep
    \/ DeleteFileStep

UpdateDeleteSpec == Init /\ [][UpdateDeleteNext]_vars

(***************************************************************************)
(* The file edit view of the frontend (ViewSpec): FileView::update with    *)
(* the timers of Mailbox::send_after and the requests of Mailbox::spawn.   *)
(* Times are milliseconds of Date::now(); a text is a tuple of characters. *)
(***************************************************************************)
\* the delay of send_after and the threshold of should_save
SaveDelay == 5000

\* the number of Edit messages of one behaviour
MaxEdits == 3

ViewFile == [title |-> None, description |-> None, tags |-> << <<"a">> >>]

\* FileView::new
view_new(f) ==
    [file |-> f, title |-> None, description |-> None, tag_input |-> <<>>,
     tags |-> None, last_edit |-> None, saving |-> FALSE, error |-> None]

\* FileView::tags
view_tags(v) == IF v.tags # None THEN v.tags[1] ELSE v.file.tags

text_ends_with(s, ch) == Len(s) > 0 /\ s[Len(s)] = ch

contains(seq, x) == \E i \in 1..Len(seq) : seq[i] = x

\* Vec::retain(|t| t != &tag)
retain_ne(seq, tag) == SelectSeq(seq, LAMBDA t : t # tag)

\* str::trim of a text without inner blanks
trim(s) == SelectSeq(s, LAMBDA ch : ch # " ")

\* the Edit arm of FileView::update: [view, scheduled]; scheduled is FALSE
\* after the early return of an incomplete tag
view_edit(v, edit, clock) ==
    LET touched(w) == [view |-> [w EXCEPT !.last_edit = Some(clock)],
                       scheduled |-> TRUE]
    IN CASE edit.kind = "Title" -> touched([v EXCEPT !.title = Some(edit.val)])
         [] edit.kind = "Description" ->
                touched([v EXCEPT !.description = Some(edit.val)])
         [] edit.kind = "TagRemove" ->
                touched([v EXCEPT !.tags = Some(retain_ne(view_tags(v), edit.val))])
         [] edit.kind = "TagAdd" ->
                IF text_ends_with(edit.val, " ") \/ text_ends_with(edit.val, ",")
                THEN LET new_tag == SubSeq(edit.val, 1, Len(edit.val) - 2)
                     IN IF Len(new_tag) > 0
                        THEN touched([v EXCEPT
                                 !.tags = Some(IF contains(view_tags(v), edit.val)
                                               THEN view_tags(v)
                                               ELSE Append(view_tags(v), edit.val)),
                                 !.tag_input = <<>>])
                        ELSE touched(v)
                ELSE [view |-> [v EXCEPT !.tag_input = trim(edit.val)],
                      scheduled |-> FALSE]

\* should_save of the Save arm
should_save(v, clock) ==
    IF v.last_edit = None THEN FALSE ELSE clock - v.last_edit[1] > SaveDelay

\* the FileUpdate the Save arm sends
view_request(v) ==
    [title |-> v.title, description |-> v.description, tags |-> v.tags]

\* the Save arm of FileView::update: [view, sent]; sent holds the request
view_save(v, clock) ==
    IF should_save(v, clock)
    THEN [view |-> [v EXCEPT !.saving = TRUE], sent |-> Some(view_request(v))]
    ELSE [view |-> v, sent |-> None]

\* the Saved arm of FileView::update
view_saved(v, f) ==
    [v EXCEPT !.file = f, !.title = None, !.description = None,
              !.last_edit = None, !.saving = FALSE]

\* the Error arm of FileView::update
view_error(v, e) == [v EXCEPT !.error = Some(e)]

\* the file the server answers a FileUpdate with
updated_file(f, req) ==
    [title |-> IF req.title # None THEN req.title ELSE f.title,
     description |-> IF req.description # None THEN req.description
                     ELSE f.description,
     tags |-> IF req.tags # None THEN req.tags[1] ELSE f.tags]

ViewEdits ==
    {[kind |-> "Title", val |-> <<"t">>],
     [kind |-> "Description", val |-> <<"d">>],
     [kind |-> "TagRemove", val |-> <<"a">>],
     [kind |-> "TagAdd", val |-> <<"c">>],
     [kind |-> "TagAdd", val |-> <<"c", " ">>],
     [kind |-> "TagAdd", val |-> <<"c", "d", ",">>]}

\* the view is open: timers are the due times of the pending Save messages,
\* requests the updates in flight, edited_at the time of the latest edit
\* that scheduled a Save, unsent whether no request sent since carries it
ViewOpen ==
    /\ last.op = "new"
    /\ last' = [op |-> "view", view |-> view_new(ViewFile), timers |-> EmptyBag,
                requests |-> <<>>, edits |-> 0, edited_at |-> None,
                unsent |-> FALSE]
    /\ UNCHANGED <<fs, db, now>>

\* an input of the rendered view delivers an Edit; the inputs are disabled
\* while saving, the remove button of a tag is not
ViewEdit(edit) ==
    /\ last.op = "view"
    /\ last.edits < MaxEdits
    /\ IF edit.kind = "TagRemove" THEN contains(view_tags(last.view), edit.val)
       ELSE ~last.view.saving
    /\ \E r \in {view_edit(last.view, edit, now)} :
          last' = [last EXCEPT
                      !.view = r.view,
                      !.edits = @ + 1,
                      !.timers = IF r.scheduled
                                 THEN @ (+) SetToBag({now + SaveDelay}) ELSE @,
                      !.edited_at = IF r.scheduled THEN Some(now) ELSE @,
                      !.unsent = IF r.scheduled THEN TRUE ELSE @]
    /\ UNCHANGED <<fs, db, now>>

\* a timer that is due delivers Save
ViewSave(due) ==
    /\ last.op = "view"
    /\ BagIn(due, last.timers)
    /\ now >= due
    /\ \E r \in {view_save(last.view, now)} :
          last' = [last EXCEPT
                      !.view = r.view,
                      !.timers = @ (-) SetToBag({due}),
                      !.requests = IF r.sent # None THEN Append(@, r.sent[1])
                                   ELSE @,
                      !.unsent = IF r.sent # None THEN FALSE ELSE @]
    /\ UNCHANGED <<fs, db, now>>

\* the oldest request in flight completes with Saved or with Error
ViewResponse(ok) ==
    /\ last.op = "view"
    /\ last.requests # <<>>
    /\ last' = [last EXCEPT
                   !.view = IF ok
                            THEN view_saved(@, updated_file(@.file,
                                                            Head(last.requests)))
                            ELSE view_error(@, "fetch"),
                   !.requests = Tail(@)]
    /\ UNCHANGED <<fs, db, now>>

\* time passes up to the instant a pending timer is due, or one millisecond
\* beyond it
ViewWait(t) ==
    /\ last.op = "view"
    /\ t > now
    /\ now' = t
    /\ UNCHANGED <<fs, db, last>>

PendingTimers == IF last.op = "view" THEN BagToSet(last.timers) ELSE {}

ViewNext ==
    \/ ViewOpen
    \/ \E edit \in ViewEdits : ViewEdit(edit)
    \/ \E due \in PendingTimers : ViewSave(due)
    \/ \E ok \in BOOLEAN : ViewResponse(ok)
    \/ \E due \in PendingTimers : \E t \in {due, due + 1} : ViewWait(t)

ViewSpec == Init /\ [][ViewNext]_vars

\* the browser delivers every due timer and every response, and time passes;
\* the user is not bound to edit
FairViewSpec ==
    /\ ViewSpec
    /\ WF_vars(\E due \in PendingTimers : ViewSave(due))
    /\ WF_vars(\E ok \in BOOLEAN : ViewResponse(ok))
    /\ WF_vars(\E due \in PendingTimers : \E t \in {due, due + 1} : ViewWait(t))

(***************************************************************************)
(* Object Store claims (StorageSpec)                                       *)
(***************************************************************************)
HasContent(S, path) == file_path(path) \in DOMAIN S.files
SidecarAbsent(S, path) ==
    meta_path(path) \notin DOMAIN S.files /\ meta_path(path) \notin S.dirs

\* C1: create on a path that already has content fails with AlreadyExists
\* (the error "path_already_exists") and leaves the content bytes and the
\* sidecar stored at that path as they were.
C1_CreateOccupiedFails ==
    [][(last'.op = "file_create" /\ HasContent(fs, last'.path))
        => /\ last'.res = Err("path_already_exists")
           /\ fs_read(fs', file_path(last'.path)) = fs_read(fs, file_path(last'.path))
           /\ fs_read(fs', meta_path(last'.path)) = fs_read(fs, meta_path(last'.path))]_vars

C1_Witness ==
    /\ last.op = "file_create"
    /\ last.res = Err("path_already_exists")
    /\ HasContent(fs, last.path)
    /\ lookup(fs, meta_path(last.path)) = "file"

\* C2: a successful updateMeta(path, m) is followed by readMeta(path) = m,
\* and it leaves the content bytes at path, and so the hash and size that
\* readInfo(path) returns, as they were.
C2_MetaRoundTrip ==
    [][(last'.op = "file_meta_update" /\ last'.res.ok)
        => /\ HasContent(fs, last'.path)
           /\ file_meta(fs', last'.path) = Ok(last'.meta)
           /\ fs_read(fs', file_path(last'.path)) = fs_read(fs, file_path(last'.path))
           /\ file_info(fs', last'.path) = file_info(fs, last'.path)]_vars

C2_Witness ==
    /\ last.op = "file_meta_update"
    /\ last.res.ok
    /\ last.meta = MetaFull
    /\ file_meta(fs, last.path) = Ok(MetaFull)

\* C3 as stated: after a successful delete(path), readInfo(path) and
\* readMeta(path) both fail with NotFound.
C3_DeleteThenBothNotFound ==
    [][(last'.op = "file_delete" /\ last'.res.ok)
        => /\ file_info(fs', last'.path) = Err("NotFound")
           /\ file_meta(fs', last'.path) = Err("NotFound")]_vars

\* C3 amended: after a successful delete(path), readInfo(path) fails with
\* NotFound and readMeta(path) returns the default empty Meta.
C3_DeleteThenInfoNotFoundMetaDefault ==
    [][(last'.op = "file_delete" /\ last'.res.ok)
        => /\ file_info(fs', last'.path) = Err("NotFound")
           /\ file_meta(fs', last'.path) = Ok(FileMetaDefault)]_vars

C3_Witness ==
    /\ last.op = "file_delete"
    /\ last.res.ok
    /\ file_info(fs, last.path) = Err("NotFound")
    /\ file_meta(fs, last.path) = Ok(FileMetaDefault)

\* C4 as stated: readMeta(path) on any path whose sidecar is absent returns
\* the default empty Meta and never an error.
C4_AbsentSidecarIsDefault ==
    (last.op = "file_meta" /\ SidecarAbsent(fs, last.path))
        => last.res = Ok(FileMetaDefault)

\* C4 amended: readMeta(path) on a path whose sidecar is absent and none of
\* whose parent components is a regular file returns the default empty Meta;
\* under a parent that is a regular file it returns the NotADirectory error.
C4_AbsentSidecarIsDefaultOrNotADirectory ==
    (last.op = "file_meta" /\ SidecarAbsent(fs, last.path))
        => IF \E a \in Ancestors(meta_path(last.path)) : a \in DOMAIN fs.files
           THEN last.res = Err("NotADirectory")
           ELSE last.res = Ok(FileMetaDefault)

C4_Witness ==
    /\ last.op = "file_meta"
    /\ SidecarAbsent(fs, last.path)
    /\ HasContent(fs, last.path)
    /\ last.res = Ok(FileMetaDefault)

\* C5: a successful create(path, meta, C) returns a File whose hash is the
\* digest of C, and readInfo(path) right after it returns that same hash.
C5_CreateThenInfoHash ==
    [][(last'.op = "file_create" /\ last'.res.ok)
        => /\ ~path_exists(fs, file_path(last'.path))
           /\ last'.res.val.info.hash = md5_digest(last'.input)
           /\ file_info(fs', last'.path).ok
           /\ file_info(fs', last'.path).val.hash = md5_digest(last'.input)]_vars

C5_Witness ==
    /\ last.op = "file_create"
    /\ last.res.ok
    /\ Len(last.input) > BufSize
    /\ last.res.val.info.hash = md5_digest(last.input)

\* C21: updateMeta(path, m) on a path that has no content fails and leaves
\* the sidecar of the path as it was (none is created, none is modified); a
\* successful updateMeta(path, m) leaves a sidecar that holds exactly m,
\* whatever the previous sidecar held.
C21_UpdateMetaNeedsContentAndReplaces ==
    [][(last'.op = "file_meta_update")
        => /\ ~HasContent(fs, last'.path)
                => /\ ~last'.res.ok
                   /\ lookup(fs', meta_path(last'.path)) = lookup(fs, meta_path(last'.path))
                   /\ fs_read(fs', meta_path(last'.path)) = fs_read(fs, meta_path(last'.path))
           /\ last'.res.ok
                => /\ fs_read(fs', meta_path(last'.path)) = Ok(to_yaml(last'.meta))
                   /\ file_meta_strict(fs', last'.path) = Ok(last'.meta)]_vars

\* an updateMeta on a path without content failed, next to a file that
\* stands where the sidecar of the path would be
C21_Witness ==
    /\ last.op = "file_meta_update"
    /\ ~last.res.ok
    /\ ~HasContent(fs, last.path)
    /\ lookup(fs, meta_path(last.path)) = "file"

\* an updateMeta with the empty Meta succeeded
C21_WitnessReplaced ==
    /\ last.op = "file_meta_update"
    /\ last.res.ok
    /\ last.meta = FileMetaDefault
    /\ fs_read(fs, meta_path(last.path)) = Ok(to_yaml(FileMetaDefault))

(***************************************************************************)
(* Object Store delete claims (DeleteSpec)                                 *)
(***************************************************************************)
DeleteDone == last.op = "file_delete_steps" /\ last.pc = "done"

\* content but no sidecar: delete succeeds and the content is gone
DeleteWithoutSidecarSucceeds ==
    (DeleteDone /\ last.had.content = "file" /\ last.had.sidecar = "NotFound")
        => last.res.ok /\ lookup(fs, file_path(last.path)) = "NotFound"

\* content and sidecar: after the first removal the sidecar is gone and the
\* content still stands; at the end both are gone
DeleteSidecarBeforeContent ==
    (last.op = "file_delete_steps" /\ last.had.content = "file"
                                   /\ last.had.sidecar = "file")
        => /\ last.pc = "remove_file"
                => /\ lookup(fs, meta_path(last.path)) = "NotFound"
                   /\ lookup(fs, file_path(last.path)) = "file"
           /\ last.pc = "done"
                => /\ last.res.ok
                   /\ lookup(fs, meta_path(last.path)) = "NotFound"
                   /\ lookup(fs, file_path(last.path)) = "NotFound"

\* C22 as stated: delete(path) succeeds on a path that has content and no
\* sidecar, removes the sidecar before the content when both exist, and
\* fails with NotFound when the path has no content.
C22_DeleteOrderAndNotFound ==
    /\ DeleteWithoutSidecarSucceeds
    /\ DeleteSidecarBeforeContent
    /\ (DeleteDone /\ last.had.content # "file") => last.res = Err("NotFound")

\* C22 amended: delete(path) succeeds on a path that has content and no
\* sidecar, removes the sidecar before the content when both exist, and
\* fails when the path has no content: with NotADirectory when a parent
\* component of the path is a regular file, with IsADirectory when the path
\* or its sidecar path is a directory, and with NotFound otherwise.
C22_DeleteOrderAndFailure ==
    /\ DeleteWithoutSidecarSucceeds
    /\ DeleteSidecarBeforeContent
    /\ (DeleteDone /\ last.had.content # "file")
          => last.res =
                Err(IF last.had.content = "NotADirectory" THEN "NotADirectory"
                    ELSE IF "dir" \in {last.had.content, last.had.sidecar}
                         THEN "IsADirectory"
                    ELSE "NotFound")

\* a delete of content and sidecar stands between its two removals
C22_Witness ==
    /\ last.op = "file_delete_steps"
    /\ last.pc = "remove_file"
    /\ last.had.content = "file"
    /\ last.had.sidecar = "file"
    /\ lookup(fs, file_path(last.path)) = "file"

\* a delete of content without sidecar succeeded
C22_WitnessNoSidecar ==
    DeleteDone /\ last.had.content = "file" /\ last.had.sidecar = "NotFound"
               /\ last.res.ok

\* a delete without content failed with NotFound after it removed a sidecar
C22_WitnessNotFound ==
    DeleteDone /\ last.had.content = "NotFound" /\ last.had.sidecar = "file"
               /\ last.res = Err("NotFound")

(***************************************************************************)
(* Catalog Index claims (IndexSpec)                                        *)
(***************************************************************************)
Range(s) == {s[i] : i \in DOMAIN s}

\* the tag relation holds for hash exactly one row for each tag of the list
TagsAre(D, hash, tags) ==
    \A t \in Tags :
        CopiesIn([tag |-> t, file_hash |-> hash], D.files_tags)
            = IF t \in Range(tags) THEN 1 ELSE 0

\* C8: after two upserts in sequence for the same hash, with tag sets T1 then
\* T2, the tag relation holds for that hash exactly the pairs (t, hash) with
\* t in T2, each once.
C8_SecondTagSetReplacesFirst ==
    [][(/\ last.op = "file_persist"
        /\ last'.op = "file_persist"
        /\ last'.file.info.hash = last.file.info.hash)
        => TagsAre(db', last'.file.info.hash, last'.file.meta.tags)]_vars

\* C8 for tags that hold no quote character: the same, and the upsert succeeds
C8_QuoteFreeTagSetReplacesFirst ==
    [][(/\ last.op = "file_persist"
        /\ last'.op = "file_persist"
        /\ last'.file.info.hash = last.file.info.hash
        /\ "o'c" \notin Range(last'.file.meta.tags))
        => /\ last'.res.ok
           /\ TagsAre(db', last'.file.info.hash, last'.file.meta.tags)]_vars

UniqueRows(D) ==
    \A i, j \in DOMAIN D.files :
        (D.files[i].hash = D.files[j].hash \/ D.files[i].path = D.files[j].path)
            => i = j

\* C9: no two file rows share a hash and no two share a path; an upsert whose
\* hash or path is already indexed leaves its own row as the only row with
\* that hash or that path, keeps every other row, and does not fail on the
\* conflict (the only failure of an upsert is the tag statement's syntax
\* error, for a tag that holds a quote).
C9_UniqueHashAndPath ==
    [][/\ UniqueRows(db')
       /\ last'.op = "file_persist" =>
            LET new == file_row(last'.file, now)
            IN /\ new \in Range(db'.files)
               /\ \A r \in Range(db'.files) :
                    (r.hash = new.hash \/ r.path = new.path) => r = new
               /\ \A r \in Range(db.files) :
                    (r.hash # new.hash /\ r.path # new.path)
                        => r \in Range(db'.files)
               /\ Len(db'.files) = Len(db.files) + 1 - last'.replaced
               /\ last'.res.ok <=> "o'c" \notin Range(last'.file.meta.tags)]_vars

C9_Witness ==
    /\ last.op = "file_persist"
    /\ last.replaced = 2
    /\ last.res.ok
    /\ Len(db.files) = 1

\* C10: every tag row refers to a hash that has a file row, each (tag, hash)
\* pair occurs at most once, and delete(hash) leaves no tag row for that hash.
C10_TagRowsBelongToFileRows ==
    /\ \A e \in DOMAIN db.files_tags :
        /\ \E i \in DOMAIN db.files : db.files[i].hash = e.file_hash
        /\ db.files_tags[e] = 1
    /\ last.op = "db_file_delete" => TagRows(db, last.hash) = {}

C10_Witness ==
    /\ last.op = "db_file_delete"
    /\ last.cascaded = 2
    /\ TagRows(db, last.hash) = {}
    /\ db.files_tags # EmptyBag

(***************************************************************************)
(* Listing claims (ListSpec)                                               *)
(***************************************************************************)
\* the filter as the claims read it: Tag(t) is membership of (t, hash) in the
\* tag relation, Kind(k) equality of the row's kind, And / Or the connectives
RECURSIVE Matches(_, _, _)
Matches(D, row, f) ==
    CASE f.t = "Tag" -> [tag |-> f.v, file_hash |-> row.hash] \in DOMAIN D.files_tags
      [] f.t = "Kind" -> from_str(row.kind) = f.v
      [] f.t = "And" -> Matches(D, row, f.left) /\ Matches(D, row, f.right)
      [] f.t = "Or" -> Matches(D, row, f.left) \/ Matches(D, row, f.right)

MatchingHashes(D, filter) ==
    {D.files[i].hash : i \in {j \in DOMAIN D.files :
                                filter = None \/ Matches(D, D.files[j], filter[1])}}

ItemHashes(page) == {page.items[i].info.hash : i \in DOMAIN page.items}

\* C6: list(query) with filter f returns only, and (page permitting) all, the
\* rows that satisfy f; And(Tag("a"), Kind(image)) over one image tagged "a"
\* and one video tagged "a" returns exactly the image.
C6_FilterSelectsMatchingRows ==
    (/\ last.op = "files"
     /\ last.query.filter # None
     /\ MatchingHashes(db, last.query.filter) # {})
        => /\ last.res.ok
           /\ ItemHashes(last.res.val) \subseteq MatchingHashes(db, last.query.filter)
           /\ (last.query.page < 2
                /\ Cardinality(MatchingHashes(db, last.query.filter))
                        <= last.query.page_size)
                => ItemHashes(last.res.val) = MatchingHashes(db, last.query.filter)

\* C7: the returned total is the number of rows matching the filter (all rows
\* without a filter), whatever the sort, page and pageSize, and the number of
\* items is at most pageSize.
C7_TotalCountsMatchingRows ==
    (/\ last.op = "files"
     /\ Cardinality(MatchingHashes(db, last.query.filter)) > last.query.page_size)
        => /\ last.res.ok
           /\ last.res.val.total
                = Cardinality(MatchingHashes(db, last.query.filter))
           /\ Len(last.res.val.items) <= last.query.page_size

\* C7 for the queries without a filter, the only ones that return a page
C7_TotalWithoutFilter ==
    last.op = "files"
        => IF last.query.filter = None
           THEN /\ last.res.ok
                /\ last.res.val.total = Len(db.files)
                /\ Len(last.res.val.items) <= last.query.page_size
           ELSE ~last.res.ok

C12_UpdateWritesThrough ==
    (last.op = "file_update" /\ last.res.ok)
        => LET f == last.res.val
               row == db_file(db, f.info.hash)
               meta == file_meta(fs, f.path)
           IN /\ row.ok
              /\ meta.ok
              /\ file_info(fs, f.path).val.hash = f.info.hash
              /\ row.val.path = f.path
              /\ row.val.meta.title = meta.val.title
              /\ row.val.meta.description = meta.val.description
              /\ Range(row.val.meta.tags) = Range(meta.val.tags)

C12_Witness ==
    /\ last.op = "file_update"
    /\ last.res.ok
    /\ last.res.val.info.hash # last.data.hash
    /\ Range(db_file(db, last.res.val.info.hash).val.meta.tags) = {"a", "b"}
    /\ db_file(db, last.res.val.info.hash).val.meta.title = Some("t")

\* C13: after a successful deleteFile(hash) the store has neither content nor
\* sidecar at the path the index held for hash, and get(hash) fails with
\* NotFound; deleteFile of a hash that is not indexed fails with NotFound and
\* changes neither the store nor the index.
C13_DeleteRemovesStoreAndRow ==
    [][last'.op = "app_file_delete"
        => LET row == db_file(db, last'.hash)
           IN IF row.ok
              THEN last'.res.ok
                    => /\ lookup(fs', file_path(row.val.path)) = "NotFound"
                       /\ lookup(fs', meta_path(row.val.path)) = "NotFound"
                       /\ app_file(db', last'.hash) = Err("not_found")
              ELSE /\ last'.res = Err("not_found")
                   /\ fs' = fs
                   /\ db' = db]_vars

C13_Witness ==
    /\ last.op = "app_file_delete"
    /\ last.res.ok
    /\ app_file(db, last.hash) = Err("not_found")
    /\ db.files # <<>>
    /\ DOMAIN fs.files # {}

(***************************************************************************)
(* Reconciliation claims (ReconcileSpec)                                   *)
(***************************************************************************)
IsFileItem(S, n) ==
    ~ends_with(n, ".gallery.yaml") /\ ~ends_with(n, ".importer.js")

\* C14: after a Reconciliation pass that completes, the index holds, for every
\* File item of the store, a row keyed by that file's content hash; and no
\* row of the index is the row of a Collection or Transform item.
C14_PassIndexesEveryFile ==
    /\ (last.op = "index" /\ last.res.ok)
        => \A n \in walk_entries(fs) :
              IsFileItem(fs, n)
                => /\ file_info(fs, n).ok
                   /\ \E i \in DOMAIN db.files :
                        db.files[i].hash = file_info(fs, n).val.hash
    /\ \A i \in DOMAIN db.files : IsFileItem(fs, db.files[i].path)

C14_Witness ==
    /\ last.op = "index"
    /\ last.res.ok
    /\ Len(last.order) = 4
    /\ Len(db.files) = 2

(***************************************************************************)
(* Concurrent create claims (CreateSpec)                                   *)
(***************************************************************************)
BothDone == last.op = "file_create2" /\ \A i \in {1, 2} : last.calls[i].pc = "done"

\* the path holds the content and the Meta that the call wrote, and readInfo
\* returns the hash of that content
HoldsOwn(S, c) ==
    /\ c.res.ok
    /\ fs_read(S, file_path(c.path)) = Ok(c.input)
    /\ file_meta(S, c.path) = Ok(c.meta)
    /\ file_info(S, c.path).ok
    /\ file_info(S, c.path).val.hash = md5_digest(c.input)

\* C15: for any interleaving of two create calls on two distinct free paths
\* with distinct contents, both calls succeed and afterwards each path holds
\* the content and the Meta its own call wrote, readInfo returning the hash
\* of that content.
C15_ConcurrentCreatesIndependent ==
    BothDone => \A i \in {1, 2} : HoldsOwn(fs, last.calls[i])

\* neither path is the sidecar of the other or a directory above the other
Unrelated(p, q) ==
    /\ meta_path(p) # file_path(q)
    /\ meta_path(q) # file_path(p)
    /\ file_path(p) \notin Ancestors(file_path(q))
    /\ file_path(q) \notin Ancestors(file_path(p))

\* C15 for two paths of which neither is the sidecar of, or a directory
\* above, the other
C15_UnrelatedPathsIndependent ==
    (BothDone /\ Unrelated(last.calls[1].path, last.calls[2].path))
        => \A i \in {1, 2} : HoldsOwn(fs, last.calls[i])

(***************************************************************************)
(* Path resolution claims (EscapeSpec)                                     *)
(***************************************************************************)
\* the location is in the directory above the root
Outside(n) == n # <<>> /\ n[1] = <<"..">>

\* C16: path resolution never yields a location outside the store root: a
\* path with a parent-directory segment is rejected or normalized, so no
\* operation of the store leaves a file outside the root.
C16_NoLocationOutsideRoot ==
    \A n \in DOMAIN fs.files : ~Outside(n)

(***************************************************************************)
(* Listing order claims (OrderSpec)                                        *)
(***************************************************************************)
\* the items are in descending order of their updated time
UpdatedDescending(found) ==
    \A i, j \in DOMAIN found :
        i < j => found[i].info.updated_at[1] >= found[j].info.updated_at[1]

\* C17: list(query) with an empty sort list returns the matching rows ordered
\* by updated time descending.
C17_EmptySortIsUpdatedDescending ==
    (last.op = "files" /\ last.query.sort = <<>>)
        => last.res.ok /\ UpdatedDescending(last.res.val.items)

\* C17 for the sort list of FileQuery::default, [Updated descending]
C17_DefaultSortIsUpdatedDescending ==
    (last.op = "files" /\ last.query.sort = SortUpdatedDesc)
        => last.res.ok /\ UpdatedDescending(last.res.val.items)

(***************************************************************************)
(* Listing claims on tags, hasMore and the page window (ListSpec)          *)
(***************************************************************************)
\* the tags that the tag relation holds for hash
TagSet(D, hash) ==
    {e.tag : e \in {x \in DOMAIN D.files_tags : x.file_hash = hash}}

\* the File carries each tag of its own hash once and no other tag
CarriesOwnTags(D, f) ==
    /\ Range(f.meta.tags) = TagSet(D, f.info.hash)
    /\ Len(f.meta.tags) = Cardinality(TagSet(D, f.info.hash))

\* C18: every File returned by get(hash) or inside a list(query) page carries
\* exactly the tags that the tag relation holds for its own hash, whatever the
\* number and order of the rows of the page; get on a hash with no row fails
\* with NotFound.
C18_FilesCarryOwnTags ==
    /\ (last.op = "files" /\ last.res.ok)
        => \A i \in DOMAIN last.res.val.items :
              CarriesOwnTags(db, last.res.val.items[i])
    /\ last.op = "file"
        => IF \E i \in DOMAIN db.files : db.files[i].hash = last.hash
           THEN /\ last.res.ok
                /\ last.res.val.info.hash = last.hash
                /\ CarriesOwnTags(db, last.res.val)
           ELSE last.res = Err("not_found")

C18_Witness ==
    /\ last.op = "files"
    /\ last.res.ok
    /\ Len(last.res.val.items) = 2
    /\ last.res.val.items[1].meta.tags = <<>>
    /\ last.res.val.items[2].meta.tags = <<"a">>

\* C19: hasMore of a page is true exactly when the number of returned items
\* equals pageSize; so a first page of size n over exactly n rows reports
\* hasMore although no further row exists.
C19_HasMoreIsFullPage ==
    (last.op = "files" /\ last.res.ok)
        => /\ has_more(last.res.val)
                <=> Len(last.res.val.items) = last.query.page_size
           /\ (last.query.page < 2 /\ Len(db.files) = last.query.page_size)
                => /\ has_more(last.res.val)
                   /\ last.res.val.total = last.query.page_size

C19_Witness ==
    /\ last.op = "files"
    /\ last.res.ok
    /\ last.query.page = 1
    /\ last.query.page_size = MaxPageSize
    /\ Len(db.files) = MaxPageSize
    /\ has_more(last.res.val)

\* the rows that match the filter, in the order of the sort list
FilteredSorted(D, query) ==
    LET matching == SelectSeq(D.files,
                        LAMBDA r : query.filter = None
                                    \/ Matches(D, r, query.filter[1]))
        order_parts == [i \in DOMAIN query.sort |->
                           [field |-> sort_field(query.sort[i].sort),
                            direction |-> IF query.sort[i].ascending
                                          THEN "ASC" ELSE "DESC"]]
    IN sql_order_by(matching, order_parts)

\* C20: list(query) returns the rows at positions [offset, offset + pageSize)
\* of the filtered, sorted row sequence, with offset = 0 for page < 2 and
\* page * pageSize otherwise; so pages 0 and 1 return the same rows and no
\* page returns a row at a position in pageSize .. 2 * pageSize - 1.
C20_PageWindow ==
    last.op = "files"
        => LET q == last.query
               rows == FilteredSorted(db, q)
               offset == IF q.page < 2 THEN 0 ELSE q.page * q.page_size
               window == SubSeq(rows, offset + 1,
                                Min(Len(rows), offset + q.page_size))
           IN /\ q.filter = None => last.res.ok
              /\ last.res.ok
                    => /\ [i \in DOMAIN last.res.val.items |->
                              last.res.val.items[i].info.hash]
                            = [i \in DOMAIN window |-> window[i].hash]
                       /\ q.page \in {0, 1}
                            => last.res.val.items
                                = db_files(db, [q EXCEPT !.page = 1 - @]).val.items
                       /\ q.page >= 1
                            => \A k \in (q.page_size + 1)..(2 * q.page_size) :
                                 k <= Len(rows)
                                    => rows[k].hash \notin ItemHashes(last.res.val)

C20_Witness ==
    /\ last.op = "files"
    /\ last.res.ok
    /\ last.query.page = 2
    /\ last.query.page_size = 1
    /\ Len(db.files) = 3
    /\ Len(last.res.val.items) = 1

(***************************************************************************)
(* Reconciliation claims on stale rows and on the walk (ReconcileSpec)     *)
(***************************************************************************)
\* the row's file is gone from the store: neither content nor sidecar
GoneFromStore(S, r) ==
    /\ lookup(S, file_path(r.path)) = "NotFound"
    /\ lookup(S, meta_path(r.path)) = "NotFound"

\* the pass over store S upserts a file with the row's hash or path
Reupserted(S, order, r) ==
    \E i \in DOMAIN order :
        /\ IsFileItem(S, order[i])
        /\ \/ order[i] = r.path
           \/ file_info(S, order[i]).val.hash = r.hash

\* C23: a Reconciliation pass does not prune: the row and the tag rows of a
\* file whose content and sidecar are gone from the store, and whose path and
\* hash the pass does not upsert again, are in the index after the pass as
\* they were before it.
C23_PassDoesNotPrune ==
    [][(last'.op = "index")
        => \A i \in DOMAIN db.files :
              (GoneFromStore(fs, db.files[i])
                    /\ ~Reupserted(fs, last'.order, db.files[i]))
                => /\ db.files[i] \in Range(db'.files)
                   /\ TagRows(db', db.files[i].hash) = TagRows(db, db.files[i].hash)
                   /\ \A e \in TagRows(db, db.files[i].hash) :
                         CopiesIn(e, db'.files_tags) = CopiesIn(e, db.files_tags)]_vars

\* a completed pass over a store with a file, and an index that holds the
\* row and the tag rows of a file that is gone from the store
C23_Witness ==
    /\ last.op = "index"
    /\ last.res.ok
    /\ Len(last.order) > 0
    /\ \E i \in DOMAIN db.files :
          /\ GoneFromStore(fs, db.files[i])
          /\ ~Reupserted(fs, last.order, db.files[i])
          /\ TagSet(db, db.files[i].hash) = {"a", "b"}

\* what loading the entry n gives, by the kind of the entry
EntryLoads(S, n, r) ==
    IF ends_with(n, ".gallery.yaml")
    THEN IF S.files[n] = GalleryDoc
         THEN r.ok /\ r.val.item = "Gallery" /\ r.val.path = n
         ELSE ~r.ok
    ELSE IF ends_with(n, ".importer.js")
    THEN r.ok /\ r.val.item = "Importer" /\ r.val.content = S.files[n]
    ELSE /\ r.ok
         /\ r.val.item = "File"
         /\ r.val.file.path = n
         /\ r.val.file.info.hash = md5_digest(S.files[n])

BothSucceeded == BothDone /\ \A i \in {1, 2} : last.calls[i].res.ok

\* every byte of c stands at the same place in x or in y
ByteOfEither(c, x, y) ==
    \A k \in DOMAIN c : \/ k \in DOMAIN x /\ c[k] = x[k]
                        \/ k \in DOMAIN y /\ c[k] = y[k]

C25_WitnessMixed ==
    /\ BothSucceeded
    /\ fs_read(fs, file_path(last.calls[1].path)) = Ok(<<"V", "x", "y">>)

(***************************************************************************)
(* Index upsert claims on interleaving and interruption (UpsertSpec)       *)
(***************************************************************************)
BothPersisted ==
    /\ last.op = "file_persist2"
    /\ \A i \in {1, 2} : last.calls[i].pc = "done" /\ last.calls[i].res.ok

\* the index holds for the hash of f the row of f and exactly the tags of f
IndexStateOf(D, clock, f) ==
    /\ \E i \in DOMAIN D.files : D.files[i] = file_row(f, clock)
    /\ \A i \in DOMAIN D.files :
          D.files[i].hash = f.info.hash => D.files[i] = file_row(f, clock)
    /\ TagsAre(D, f.info.hash, f.meta.tags)

\* C26: after two upserts of the same hash that ran at once on two
\* connections, their statements interleaved, the index holds for that hash
\* the state of one of the two upserts: the row and the tag set are both of
\* the same upsert, and the tag set is exactly the tag set of that upsert.
C26_ConcurrentUpsertsLastWins ==
    BothPersisted
        => \E i \in {1, 2} : IndexStateOf(db, now, last.calls[i].file)

\* the state of the second upsert after both are done
C26_WitnessLastWins ==
    BothPersisted /\ IndexStateOf(db, now, last.calls[2].file)

\* the statement of call i that this step executes is the row replace
RowReplaced(i) ==
    /\ last.op = "file_persist2"
    /\ last'.op = "file_persist2"
    /\ last.calls[i].pc = "replace_row"
    /\ last'.calls[i].pc = "delete_stale"

Indexed(D, hash) == \E j \in DOMAIN D.files : D.files[j].hash = hash

\* C28 as stated: right after the row replace of an upsert for a hash that is
\* already in the index, before its tag replace, the index holds the new row
\* and the tag rows that the hash had before.
C28_RowReplaceKeepsStaleTags ==
    [][\A i \in {1, 2} :
          (RowReplaced(i) /\ Indexed(db, last.calls[i].file.info.hash))
            => /\ file_row(last.calls[i].file, now) \in Range(db'.files)
               /\ TagRows(db', last.calls[i].file.info.hash)
                     = TagRows(db, last.calls[i].file.info.hash)]_vars

\* C28 amended: right after the row replace of an upsert for a hash that is
\* already in the index, before its tag replace, the index holds the new row
\* and no tag row for that hash: the replace deleted the old row and, by ON
\* DELETE CASCADE, its tag rows.
C28_RowReplaceDropsTags ==
    [][\A i \in {1, 2} :
          (RowReplaced(i) /\ Indexed(db, last.calls[i].file.info.hash))
            => /\ file_row(last.calls[i].file, now) \in Range(db'.files)
               /\ TagRows(db', last.calls[i].file.info.hash) = {}]_vars

\* an upsert stands between its row replace, which removed tag rows, and its
\* tag replace, and the other upsert has not begun
C28_Witness ==
    /\ last.op = "file_persist2"
    /\ last.calls[1].pc = "delete_stale"
    /\ last.calls[1].cascaded > 0
    /\ last.calls[2].pc = "replace_row"
    /\ file_row(last.calls[1].file, now) \in Range(db.files)
    /\ TagRows(db, last.calls[1].file.info.hash) = {}

(***************************************************************************)
(* Facade claims on the key of the rows written (FacadeSpec)               *)
(***************************************************************************)
\* the row's hash is the digest of the bytes that the store holds at its path
KeyedByStoredBytes(S, r) ==
    /\ fs_read(S, file_path(r.path)).ok
    /\ r.hash = md5_digest(fs_read(S, file_path(r.path)).val)

\* C27: every row that a Reconciliation pass or updateFile writes to the
\* index has as its hash the digest of the bytes stored at the row's path
\* during that operation; the hash of the updateFile request and the hash
\* override of a sidecar are never the key of the row written.
C27_WrittenRowsKeyedByStoredBytes ==
    [][(last'.op \in {"index", "file_update"})
        => /\ \A r \in Range(db'.files) :
                 r \notin Range(db.files) => KeyedByStoredBytes(fs', r)
           /\ (last'.op = "file_update" /\ last'.res.ok)
                 => \E r \in Range(db'.files) :
                       /\ r.path = last'.res.val.path
                       /\ r.hash = last'.res.val.info.hash
                       /\ KeyedByStoredBytes(fs', r)]_vars

\* a completed pass over a file whose sidecar carries a hash override that is
\* not the digest of its content: the row is keyed by the digest
C27_Witness ==
    /\ last.op = "index"
    /\ last.res.ok
    /\ \E n \in walk_entries(fs) :
          /\ file_meta(fs, n).ok
          /\ file_meta(fs, n).val.hash = Some("md5:V")
          /\ fs.files[n] = <<"P", "x", "y">>
          /\ \E r \in Range(db.files) : r.path = n /\ r.hash = md5_digest(fs.files[n])
          /\ \A r \in Range(db.files) : r.hash # "md5:V"

\* an updateFile through a row whose hash is no longer the digest of the
\* content at its path: the row written is keyed by the digest
C27_WitnessStaleRequestHash ==
    /\ last.op = "file_update"
    /\ last.res.ok
    /\ last.data.hash # last.res.val.info.hash
    /\ \A r \in Range(db.files) : r.hash # last.data.hash

(***************************************************************************)
(* Object Store create claims on a failed sidecar write (PartialSpec)      *)
(***************************************************************************)
\* this step is a create that wrote the content and failed at the sidecar
SidecarFailed ==
    /\ last'.op = "file_create_faulty"
    /\ last'.stage = "sidecar"

\* the create returned an error, the content stays, and a create on the same
\* path fails with AlreadyExists
NoRollback ==
    /\ ~last'.res.ok
    /\ fs_read(fs', file_path(last'.path)) = Ok(last'.input)
    /\ \A meta \in Metas, input \in Contents :
          /\ file_create(fs', last'.path, meta, input).res = Err("path_already_exists")
          /\ file_create(fs', last'.path, meta, input).fs = fs'

\* C29 as stated: when create wrote the content and failed to write the
\* sidecar, it returns an error and rolls nothing back: the content stays, a
\* following readMeta returns the empty default Meta, and a following create
\* on the same path fails with AlreadyExists.
C29_FailedSidecarLeavesDefaultMeta ==
    [][SidecarFailed
        => /\ NoRollback
           /\ file_meta(fs', last'.path) = Ok(FileMetaDefault)]_vars

\* C29 amended: when create wrote the content and failed to write the
\* sidecar, it returns an error and rolls nothing back: the content stays and
\* a following create on the same path fails with AlreadyExists; a following
\* readMeta returns the empty default Meta when nothing stands at the sidecar
\* path, and fails when a directory stands there (IsADirectory) or the
\* sidecar was created and left empty (MalformedData).
C29_FailedSidecarLeavesContent ==
    [][SidecarFailed
        => /\ NoRollback
           /\ file_meta(fs', last'.path) =
                 (IF lookup(fs', meta_path(last'.path)) = "NotFound"
                  THEN Ok(FileMetaDefault)
                  ELSE IF lookup(fs', meta_path(last'.path)) = "dir"
                  THEN Err("IsADirectory")
                  ELSE Err("MalformedData"))]_vars

\* the sidecar could not be created: the content is there, readMeta returns
\* the default
C29_Witness ==
    /\ last.op = "file_create_faulty"
    /\ last.stage = "sidecar"
    /\ last.fault = "sidecar_create"
    /\ ~last.res.ok
    /\ fs_read(fs, file_path(last.path)) = Ok(last.input)
    /\ file_meta(fs, last.path) = Ok(FileMetaDefault)

\* a directory stands at the sidecar path: the content is there, readMeta fails
C29_WitnessDirectory ==
    /\ last.op = "file_create_faulty"
    /\ last.stage = "sidecar"
    /\ last.fault = "none"
    /\ last.res = Err("IsADirectory")
    /\ fs_read(fs, file_path(last.path)) = Ok(last.input)
    /\ file_meta(fs, last.path) = Err("IsADirectory")

(***************************************************************************)
(* Listing claims on sort lists (SortSpec)                                 *)
(***************************************************************************)
\* the value of File f under a sort key; no File has a length
KeyValue(f, sort) ==
    CASE sort = "Type" -> mime_rank(f.info.mime[1])
      [] sort = "Size" -> f.info.size
      [] sort = "Updated" -> f.info.updated_at[1]
      [] sort = "Created" -> f.info.created_at[1]
      [] sort = "Length" -> 0

\* f comes before g in the lexicographic order of the sort list: at the first
\* key on which they differ, f is on the side the direction of that key asks
RECURSIVE LexBefore(_, _, _)
LexBefore(f, g, sort) ==
    IF sort = <<>> THEN FALSE
    ELSE IF KeyValue(f, Head(sort).sort) = KeyValue(g, Head(sort).sort)
    THEN LexBefore(f, g, Tail(sort))
    ELSE IF Head(sort).ascending
         THEN KeyValue(f, Head(sort).sort) < KeyValue(g, Head(sort).sort)
         ELSE KeyValue(f, Head(sort).sort) > KeyValue(g, Head(sort).sort)

\* C30: list(query) with a sort list that is not empty returns its rows in
\* the lexicographic order of the sort keys as given: the first key, with its
\* direction, is primary, and a later key only orders rows that are equal on
\* every key before it.
C30_SortIsLexicographic ==
    (last.op = "files" /\ last.res.ok /\ last.query.sort # <<>>)
        => \A i, j \in DOMAIN last.res.val.items :
              i < j => ~LexBefore(last.res.val.items[j], last.res.val.items[i],
                                  last.query.sort)

\* a page of three files under Type ascending, Size descending: the first
\* two are equal on Type and ordered by Size, the third is larger than both
C30_Witness ==
    /\ last.op = "files"
    /\ last.res.ok
    /\ last.query.sort = << [sort |-> "Type", ascending |-> TRUE],
                            [sort |-> "Size", ascending |-> FALSE] >>
    /\ Len(last.res.val.items) = 3
    /\ last.res.val.items[1].info.mime = last.res.val.items[2].info.mime
    /\ last.res.val.items[1].info.size > last.res.val.items[2].info.size
    /\ last.res.val.items[3].info.size > last.res.val.items[1].info.size

(***************************************************************************)
(* Object Store claims on the kind of a file (StorageSpec)                 *)
(***************************************************************************)
\* the part of a MIME type up to its slash
MimePrefix(mime) ==
    CASE mime \in {"image/png"} -> "image"
      [] mime \in {"video/mp4"} -> "video"
      [] mime \in {"audio/mpeg"} -> "audio"
      [] OTHER -> "other"

\* the kind that belongs to a MIME prefix
KindOfPrefix(prefix) ==
    CASE prefix = "image" -> "Image"
      [] prefix = "video" -> "Video"
      [] prefix = "audio" -> "Audio"
      [] OTHER -> "Other"

\* from_str(to_str(k)) = k for every kind
KindTextRoundTrips == \A k \in FileKind : from_str(to_str(k)) = k

\* C31: the kind that readInfo computes is the kind of the MIME prefix
\* (image, video, audio, anything else other), and every kind comes back from
\* its text form.
C31_KindFromMimePrefix ==
    /\ (last.op = "file_info" /\ last.res.ok)
          => last.res.val.kind = KindOfPrefix(MimePrefix(last.res.val.mime[1]))
    /\ KindTextRoundTrips

\* the round trip and the image kind alone
C31_ImageKindAndRoundTrip ==
    /\ (last.op = "file_info" /\ last.res.ok
                              /\ MimePrefix(last.res.val.mime[1]) = "image")
          => last.res.val.kind = "Image"
    /\ KindTextRoundTrips

(***************************************************************************)
(* Object Store claims on the variant of an item (ReconcileSpec)           *)
(***************************************************************************)
\* the variant that the suffix of a path stands for
VariantOf(n) ==
    IF ends_with(n, ".gallery.yaml") THEN "Gallery"
    ELSE IF ends_with(n, ".importer.js") THEN "Importer"
    ELSE "File"

\* the path that an item carries
ItemPath(v) == IF v.item = "File" THEN v.file.path ELSE v.path

\* C32: every stored path is of one variant by its suffix: an item yielded
\* for a path ending in .gallery.yaml is a Collection, for one ending in
\* .importer.js a Transform, for every other path a File; no item is yielded
\* for a sidecar path or a directory; and a File read of a path with the
\* Collection or Transform suffix fails.
C32_VariantBySuffix ==
    /\ (last.op = "items")
          => \A i \in DOMAIN last.res :
                /\ ~ends_with(last.order[i], ".meta.yaml")
                /\ last.order[i] \notin fs.dirs
                /\ last.res[i].ok
                      => /\ last.res[i].val.item = VariantOf(last.order[i])
                         /\ ItemPath(last.res[i].val) = last.order[i]
    /\ (last.op = "items")
          => \A n \in DOMAIN fs.files :
                ends_with(n, ".meta.yaml")
                    => \A i \in DOMAIN last.res : last.order[i] # n
    /\ \A n \in DOMAIN fs.files :
          VariantOf(n) # "File" => ~file(fs, n).ok

\* a walk that yielded a Collection, a Transform and a File, in a store that
\* holds sidecars
C32_Witness ==
    /\ last.op = "items"
    /\ \A i \in DOMAIN last.res : last.res[i].ok
    /\ {last.res[i].val.item : i \in DOMAIN last.res}
          = {"Gallery", "Importer", "File"}
    /\ \E n \in DOMAIN fs.files : ends_with(n, ".meta.yaml")

(***************************************************************************)
(* Facade claims on the order of deleteFile (FacadeSpec)                   *)
(***************************************************************************)
\* C34: deleteFile removes the row only after the store removal succeeded:
\* when the store removal fails (the content is gone from the path already),
\* deleteFile returns an error and the row and the tag rows of the hash stay
\* as they were; the index changes only with content removed from the path.
C34_RowRemovedAfterStore ==
    [][(last'.op = "app_file_delete" /\ db_file(db, last'.hash).ok)
        => LET path == db_file(db, last'.hash).val.path
           IN /\ ~HasContent(fs, path) => ~last'.res.ok
              /\ ~last'.res.ok => db' = db
              /\ db' # db => /\ HasContent(fs, path)
                             /\ lookup(fs', file_path(path)) = "NotFound"]_vars

\* deleteFile failed on a hash whose row and tag rows are in the index
C34_Witness ==
    /\ last.op = "app_file_delete"
    /\ ~last.res.ok
    /\ db_file(db, last.hash).ok
    /\ ~HasContent(fs, db_file(db, last.hash).val.path)
    /\ TagSet(db, last.hash) # {}

(***************************************************************************)
(* Reconciliation claims on a pass that fails (PassSpec)                   *)
(***************************************************************************)
\* the entry at place i of the walk fails: it does not load, or it is a File
\* whose upsert fails
EntryFails(S, D, clock, order, i) ==
    \/ ~item(S, order[i]).ok
    \/ /\ item(S, order[i]).val.item = "File"
       /\ ~file_persist(D, clock, item(S, order[i]).val.file).res.ok

\* the place of the first entry of the walk that fails, 0 when none does
FirstFailure(S, D, clock, order) ==
    IF \E i \in DOMAIN order : EntryFails(S, D, clock, order, i)
    THEN CHOOSE i \in DOMAIN order :
            /\ EntryFails(S, D, clock, order, i)
            /\ \A j \in 1..(i - 1) : ~EntryFails(S, D, clock, order, j)
    ELSE 0

\* the index holds the row of the File at path n of store S
HoldsRowOf(D, S, n) ==
    \E r \in Range(D.files) :
        r.path = n /\ r.hash = md5_digest(S.files[n])

\* C35: a Reconciliation pass stops at the first entry that fails to load or
\* to upsert: the File items before that entry are upserted and stay so, and
\* no item after it is upserted by the pass.
C35_PassStopsAtFirstFailure ==
    [][(last'.op = "index")
        => LET k == FirstFailure(fs, db, now, last'.order)
           IN /\ last'.res.ok <=> k = 0
              /\ k # 0 =>
                   /\ \A i \in 1..(k - 1) :
                         IsFileItem(fs, last'.order[i])
                            => \E r \in Range(db'.files) :
                                  r.hash = md5_digest(fs.files[last'.order[i]])
                   /\ \A j \in (k + 1)..Len(last'.order) :
                         HoldsRowOf(db', fs, last'.order[j])
                            => HoldsRowOf(db, fs, last'.order[j])]_vars

\* a pass that failed at its second entry of three: the File before it has
\* its row, the File after it has none
C35_Witness ==
    /\ last.op = "index"
    /\ ~last.res.ok
    /\ Len(last.order) = 3
    /\ IsFileItem(fs, last.order[1]) /\ HoldsRowOf(db, fs, last.order[1])
    /\ ~item(fs, last.order[2]).ok
    /\ IsFileItem(fs, last.order[3]) /\ ~HoldsRowOf(db, fs, last.order[3])

\* a pass that failed at the upsert of a File
C35_WitnessUpsertFails ==
    /\ last.op = "index"
    /\ ~last.res.ok
    /\ \A i \in DOMAIN last.order : item(fs, last.order[i]).ok
    /\ Len(last.order) = 3
    /\ HoldsRowOf(db, fs, last.order[1])
    /\ ~HoldsRowOf(db, fs, last.order[3])
    /\ IsFileItem(fs, last.order[3])

(***************************************************************************)
(* Facade claims on updateFile and deleteFile at once (UpdateDeleteSpec)   *)
(***************************************************************************)
BothReturned ==
    /\ last.op = "update_delete"
    /\ last.update.pc = "done"
    /\ last.delete.pc = "done"

\* C33: for every interleaving of deleteFile(h) and updateFile(h) on one
\* indexed file, once both have returned and deleteFile has succeeded, the
\* index has no row for the file and the store has neither content nor
\* sidecar at its path.
C33_DeleteWinsOverUpdate ==
    (BothReturned /\ last.delete.res.ok)
        => /\ \A r \in Range(db.files) :
                 r.hash # last.delete.hash /\ r.path # last.delete.path
           /\ lookup(fs, file_path(last.delete.path)) = "NotFound"
           /\ lookup(fs, meta_path(last.delete.path)) = "NotFound"

\* both returned, deleteFile succeeded, and nothing of the file is left
C33_WitnessDeleteLast ==
    /\ BothReturned
    /\ last.delete.res.ok
    /\ last.update.res.ok
    /\ db.files = <<>>
    /\ lookup(fs, meta_path(last.delete.path)) = "NotFound"

\* both returned with success, and the row and a sidecar without content
\* are there
C33_WitnessResurrected ==
    /\ BothReturned
    /\ last.delete.res.ok
    /\ last.update.res.ok
    /\ \E r \in Range(db.files) : r.hash = last.delete.hash
    /\ lookup(fs, file_path(last.delete.path)) = "NotFound"
    /\ lookup(fs, meta_path(last.delete.path)) = "file"

(***************************************************************************)
(* File edit view claims (ViewSpec, FairViewSpec)                          *)
(***************************************************************************)
ViewIs(P(_)) == IF last.op = "view" THEN P(last) ELSE FALSE

Saving == ViewIs(LAMBDA l : l.view.saving)

InFlight == ViewIs(LAMBDA l : l.requests # <<>>)

\* C36: in the file edit view the saving flag is true only while an update
\* request is in flight: once every request sent has completed, with Saved or
\* with Error, the view is not left saving with its inputs disabled.
C36_SavingOnlyWhileInFlight == Saving => InFlight

\* a request has completed with Error and none is in flight: the view is
\* still saving
C36_SavingAfterError ==
    ViewIs(LAMBDA l : l.view.error # None /\ l.requests = <<>> /\ l.view.saving)

\* the part of C36 the code keeps: a Save that sends a request sets saving,
\* and a request that completes with Saved clears it
C36_SaveSetsSavedClears ==
    [][last.op = "view" =>
          /\ Len(last'.requests) > Len(last.requests) => last'.view.saving
          /\ (Len(last'.requests) < Len(last.requests)
                 /\ last'.view.error = None) => ~last'.view.saving]_vars

Unsent == ViewIs(LAMBDA l : l.unsent)

\* no request leaves sooner than SaveDelay after the latest edit
NoEarlyRequest ==
    last.op = "view" =>
        (Len(last'.requests) > Len(last.requests) =>
            /\ last.edited_at # None
            /\ now - last.edited_at[1] > SaveDelay)

\* C37: in the file edit view, after the last title, description or tag edit
\* a request carrying that edit is eventually sent, and no request is sent
\* sooner than 5000 ms after the most recent edit.
C37_EditSentAfterDelay == (Unsent ~> ~Unsent) /\ [][NoEarlyRequest]_vars

\* the half of C37 that holds: a request leaves only more than SaveDelay
\* after the latest edit
C37_NoRequestBeforeDelay == [][NoEarlyRequest]_vars

\* an edit is unsent and no Save is pending: nothing will send it
C37_EditLeftBehind ==
    ViewIs(LAMBDA l : l.unsent /\ l.timers = EmptyBag /\ l.requests = <<>>)

\* the Save of the last edit arrived exactly SaveDelay after it
C37_SaveAtExactDelay ==
    ViewIs(LAMBDA l : l.unsent /\ l.timers = EmptyBag /\ l.requests = <<>>
                      /\ l.edits = 1 /\ now = SaveDelay)

====
